---- MODULE Spec2Model ----
(***************************************************************************)
(* Order-construction pipeline of gmx_python_sdk (scripts/v2):             *)
(*   approve_token_for_spend.check_if_approved                             *)
(*   order.Order.__init__ / check_for_approval / _submit_transaction       *)
(*   order_argument_parser.OrderArgumentParser                             *)
(* The ledger gateway (web3 connection) is the environment: it answers     *)
(* reads from its current state, accepts or rejects a broadcast, and       *)
(* mines pending transactions at its own pace.                             *)
(***************************************************************************)
EXTENDS Integers, Sequences, FiniteSets, TLC

None == "None"

\* ---------------------------------------------------------------- bounds
Runs == {1, 2}
MaxAmount == 2
MaxBaseFee == 2
MaxGas == 2
MaxDirectCalls == 2

Amounts == 0..MaxAmount
\* base fees per gas in wei: 10, 20, ..., so that 1.35 x the base fee is a whole
\* number for some blocks and not for others
BaseFees == {10 * k : k \in 1..MaxBaseFee}
GasValues == 1..MaxGas

\* ------------------------------------------------------------- addresses
LegacyBTC == "0x47904963fc8b2340414262125aF798B9655E58Cd"
CanonBTC == "0x2f2a2543B76A4166549F7aaB2e75Bef0aefC5B0f"
WETH == "0x82aF49447D8a07e3bd95BD0d56f35241523fBab1"
Tokens == {LegacyBTC, CanonBTC, WETH}
Spender == "syntheticsrouter"
ExchangeRouter == "exchangerouter"
ApprovalGas == 4000000
GasKeys == {"increase_order", "decrease_order"}
\* an optional value is a sequence of length 0 or 1
CallerFees == {<<>>, <<250>>}

VARIABLES
    txCount,      \* ledger: number of mined transactions of the wallet
    pending,      \* ledger: accepted, not yet mined transactions
    allowance,    \* ledger: allowance(owner, spender) of the token contract
    nativeBal,    \* ledger: native balance of the wallet
    erc20Bal,     \* ledger: balanceOf(wallet) per token contract
    gasStore,     \* ledger: datastore value per gas-limit key
    order,        \* the resolved order and the caller's configuration
    run,          \* per pipeline run: the Order object and its progress
    approvalLog,  \* history: every call of check_if_approved
    wire,         \* history: every send_raw_transaction call
    parserKind,   \* OrderArgumentParser: is_increase / is_decrease / is_swap
    request,      \* the parameters dictionary the caller passes
    resolution,   \* process_parameters_dictionary: its result, once called
    pipelineCalls, \* price and gas reads of the order pipeline for the request
    quote,        \* the arguments of one call of Order._get_prices
    priced,       \* what that call computed and returned, once made
    pool          \* one call of execute_threading: its executor and its caller

vars == <<txCount, pending, allowance, nativeBal, erc20Bal, gasStore,
          order, run, approvalLog, wire,
          parserKind, request, resolution, pipelineCalls,
          quote, priced, pool>>

pipelineVars == <<txCount, pending, allowance, nativeBal, erc20Bal, gasStore,
                  order, run, approvalLog, wire>>
parserVars == <<parserKind, request, resolution, pipelineCalls>>
priceVars == <<quote, priced>>

\* ------------------------------------------------ check_if_approved parts
\* approve_token_for_spend.py:47-49
RemapToken(t) == IF t = LegacyBTC THEN CanonBTC ELSE t

\* Mutant: the native balance is never used
UsesNativeBalanceNever(t) == FALSE

\* approve_token_for_spend.py:78-84
UsesNativeBalance(t) == RemapToken(t) = WETH

ReadBalance(t) ==
    IF UsesNativeBalance(t) THEN nativeBal ELSE erc20Bal[RemapToken(t)]

\* Mutant: the allowance read is ignored, every call with approve set approves
NeedsApprovalAlways(allow, amount, approve) == approve

\* Mutant: an allowance equal to the amount is taken as insufficient
NeedsApprovalAtEqual(allow, amount, approve) == allow <= amount /\ approve

\* approve_token_for_spend.py:103: the approval branch is taken
NeedsApproval(allow, amount, approve) == allow < amount /\ approve

\* Mutant: without approve, an insufficient allowance is let through
ApprovalOutcomeLenient(bal, allow, amount, approve, fault) ==
    IF bal < amount THEN "InsufficientBalance"
    ELSE IF allow < amount /\ approve
         THEN IF fault = "none" THEN "ok" ELSE fault
         ELSE "ok"

\* approve_token_for_spend.py:89-145: how the call ends
ApprovalOutcome(bal, allow, amount, approve, fault) ==
    IF bal < amount THEN "InsufficientBalance"
    ELSE IF NeedsApproval(allow, amount, approve)
         THEN IF fault = "none" THEN "ok" ELSE fault
         ELSE IF allow < amount /\ ~approve THEN "AllowanceTooLow"
              ELSE "ok"

\* Mutant: the approval is for more than the amount required
ApprovalEnvelopeGenerous(amount, maxFee, nonce) ==
    [to |-> "token", call |-> <<"approve", Spender, amount + 1>>, value |-> 0,
     chainId |-> order.chainId, gas |-> ApprovalGas,
     maxFeePerGas |-> maxFee \div 100, maxPriorityFeePerGas |-> 0,
     nonce |-> nonce]

\* approve_token_for_spend.py:113-123
ApprovalEnvelope(amount, maxFee, nonce) ==
    [to |-> "token", call |-> <<"approve", Spender, amount>>, value |-> 0,
     chainId |-> order.chainId, gas |-> ApprovalGas,
     maxFeePerGas |-> maxFee \div 100, maxPriorityFeePerGas |-> 0,
     nonce |-> nonce]

\* One call of check_if_approved is an entry of approvalLog: its arguments,
\* the statement it waits at (pc) and what it has read and done so far.  The
\* call waits for the gateway four times: for the balance (lines 80-84), the
\* allowance (95-98), the transaction count (110) and the broadcast (137);
\* between two of them the ledger and the other callers go on.
CallDone(e) == e.pc = "done"

\* Mutant: check_for_approval catches the exception and goes on
ApprovalStepSwallows(outcome) == "Approved"

\* How check_for_approval ends for its caller: check_if_approved's exception
\* is not caught (order.py:64-79)
ApprovalStepEnds(outcome) == IF outcome = "ok" THEN "Approved" ELSE "Aborted"

\* the end of a call as the order that made it sees it (order.py:64-79)
ReturnToCaller(e, outcome) ==
    IF e.caller \in Runs
    THEN [run EXCEPT ![e.caller].pc = ApprovalStepEnds(outcome),
                     ![e.caller].allowanceStep = outcome,
                     ![e.caller].ended = IF outcome = "ok" THEN @ ELSE "raised"]
    ELSE run

\* approve_token_for_spend.py:43-91: the call up to the balance check
CheckIfApprovedBalance(caller, token, amount, maxFee, approve) ==
    LET bal == ReadBalance(token)
        stops == bal < amount
        e == [caller |-> caller, token |-> token, amount |-> amount,
              approve |-> approve, maxFee |-> maxFee,
              usedNative |-> UsesNativeBalance(token),
              pc |-> IF stops THEN "done" ELSE "allowance",
              balanceSeen |-> bal,
              allowanceRead |-> FALSE, allowanceSeen |-> -1, minedBefore |-> -1,
              nonceRead |-> FALSE, countSeen |-> -1,
              built |-> FALSE, signed |-> FALSE, sent |-> FALSE, accepted |-> FALSE,
              outcome |-> IF stops
                          THEN ApprovalOutcome(bal, 0, amount, approve, "none")
                          ELSE "running"]
    IN  /\ approvalLog' = Append(approvalLog, e)
        /\ run' = IF stops THEN ReturnToCaller(e, e.outcome)
                  ELSE IF caller \in Runs THEN [run EXCEPT ![caller].pc = "Approving"]
                  ELSE run
        /\ UNCHANGED <<txCount, pending, allowance, nativeBal, erc20Bal, gasStore,
                       order, wire>>

\* approve_token_for_spend.py:93-103 and 142-150: the allowance is read; the
\* call goes on to the approval, raises, or returns; minedBefore keeps the
\* ledger's transaction count at this read
CheckIfApprovedAllowance(i) ==
    LET e == approvalLog[i]
        goesOn == NeedsApproval(allowance, e.amount, e.approve)
        outcome == ApprovalOutcome(e.balanceSeen, allowance, e.amount, e.approve, "none")
    IN  /\ e.pc = "allowance"
        /\ approvalLog' = [approvalLog EXCEPT
              ![i].allowanceRead = TRUE,
              ![i].allowanceSeen = allowance,
              ![i].minedBefore = txCount,
              ![i].pc = IF goesOn THEN "nonce" ELSE "done",
              ![i].outcome = IF goesOn THEN "running" ELSE outcome]
        /\ run' = IF goesOn THEN run ELSE ReturnToCaller(e, outcome)
        /\ UNCHANGED <<txCount, pending, allowance, nativeBal, erc20Bal, gasStore,
                       order, wire>>

\* approve_token_for_spend.py:109-129: the transaction count is read, the
\* approval is built with it and signed; either of the two may raise
CheckIfApprovedNonce(i) ==
    LET e == approvalLog[i]
    IN  /\ e.pc = "nonce"
        /\ \E fault \in {"none", "build", "sign"} :
             LET built == fault # "build"
                 signed == built /\ fault # "sign"
                 outcome == ApprovalOutcome(e.balanceSeen, e.allowanceSeen, e.amount,
                                            e.approve, fault)
             IN  /\ approvalLog' = [approvalLog EXCEPT
                       ![i].nonceRead = TRUE,
                       ![i].countSeen = txCount,
                       ![i].built = built,
                       ![i].signed = signed,
                       ![i].pc = IF signed THEN "send" ELSE "done",
                       ![i].outcome = IF signed THEN "running" ELSE outcome]
                 /\ run' = IF signed THEN run ELSE ReturnToCaller(e, outcome)
        /\ UNCHANGED <<txCount, pending, allowance, nativeBal, erc20Bal, gasStore,
                       order, wire>>

\* approve_token_for_spend.py:131-150: the signed approval is sent; the
\* gateway accepts it or send_raw_transaction raises; the call does not wait
\* for the transaction to be mined
CheckIfApprovedSend(i) ==
    LET e == approvalLog[i]
    IN  /\ e.pc = "send"
        /\ \E fault \in {"none", "send"} :
             LET accepted == fault # "send"
                 env == ApprovalEnvelope(e.amount, e.maxFee, e.countSeen)
                 tx == [kind |-> "approve", run |-> e.caller, env |-> env,
                        accepted |-> accepted]
                 outcome == ApprovalOutcome(e.balanceSeen, e.allowanceSeen, e.amount,
                                            e.approve, fault)
             IN  /\ approvalLog' = [approvalLog EXCEPT
                       ![i].sent = TRUE,
                       ![i].accepted = accepted,
                       ![i].pc = "done",
                       ![i].outcome = outcome]
                 /\ wire' = Append(wire, tx)
                 /\ pending' = IF accepted THEN pending \cup {tx} ELSE pending
                 /\ run' = ReturnToCaller(e, outcome)
        /\ UNCHANGED <<txCount, allowance, nativeBal, erc20Bal, gasStore, order>>

\* --------------------------------------------------------- Order object
\* Mutant: the caller's max_fee_per_gas is ignored
InitialMaxFeeIgnoresCaller(callerFee, blockBaseFee) == blockBaseFee * 135

\* Mutant: the base fee is taken without the margin
DefaultMaxFeeNoMargin(blockBaseFee) == blockBaseFee * 100

\* order.py:47-50: max_fee_per_gas in hundredths (baseFeePerGas * 1.35)
DefaultMaxFee(blockBaseFee) == blockBaseFee * 135

InitialMaxFee(callerFee, blockBaseFee) ==
    IF callerFee = <<>> THEN DefaultMaxFee(blockBaseFee) ELSE callerFee[1]

\* create_increase_order.py:54, create_decrease_order.py:50
GasKeyOf(kind) == IF kind = "increase" THEN "increase_order" ELSE "decrease_order"

\* Mutant: the estimator is called once and its value is not doubled
GasCeilingSingle(first, second) == first

\* order.py:100: the estimator is called twice and the results are added
GasCeiling(first, second) == first + second

\* Mutant: in debug mode the envelope is built without doubling the gas
OrderEnvelopeDebugDiffers(r, first, second, nonce) ==
    [to |-> ExchangeRouter, call |-> <<"multicall", order.args, run[r].price>>,
     value |-> order.value, chainId |-> order.chainId,
     gas |-> IF run[r].debug THEN first ELSE first + second,
     maxFeePerGas |-> run[r].maxFee \div 100, maxPriorityFeePerGas |-> 0,
     nonce |-> nonce]

\* order.py:97-104; multicall_args are the order's arguments together with
\* the execution price that the run computed from the quote it fetched
OrderEnvelope(r, first, second, nonce) ==
    [to |-> ExchangeRouter, call |-> <<"multicall", order.args, run[r].price>>,
     value |-> order.value, chainId |-> order.chainId,
     gas |-> GasCeiling(first, second),
     maxFeePerGas |-> run[r].maxFee \div 100, maxPriorityFeePerGas |-> 0,
     nonce |-> nonce]

\* Mutant: a rejected broadcast is sent a second time
BroadcastsWithRetry(tx, fault) == IF fault = "send" THEN <<tx, tx>> ELSE <<tx>>

\* order.py:111: the send_raw_transaction calls made for a signed transaction
Broadcasts(tx, fault) == <<tx>>

\* Mutant: the debug flag is not consulted
GoesLiveAlways(debug) == TRUE

\* order.py:108: the envelope is signed and sent only outside debug mode
GoesLive(debug) == ~debug

\* order.py:116-117: what happens to an exception raised inside the try block
SubmitEnds(fault) == "returned"

\* order.py:81-117: the value handed to the caller; the function has no return
\* statement, so raw_txn and tx_hash stay local and the caller gets None (<<>>)
SubmitReturns(rawTxn, txHash) == <<>>

NewRun(debug) ==
    [pc |-> "Initialized", debug |-> debug, maxFee |-> 0, feeBlock |-> <<>>,
     gasKey |-> None, allowanceStep |-> None, priceCalls |-> 0,
     quote |-> <<>>, price |-> <<>>,
     envelope |-> <<>>, gasReads |-> <<>>, nonceReads |-> 0, countSeen |-> -1,
     signed |-> FALSE, broadcasts |-> 0, txHash |-> <<>>,
     failure |-> None, ended |-> None, returned |-> <<>>, stages |-> <<>>]

\* Order.order_builder, the sequence of the pipeline's steps: the allowance
\* step for orders that move collateral in, then the price, then the gas
\* limits, then the submission; a step that raises ends the run.
BuilderMayRun(step, r) ==
    CASE step = "check_for_approval" ->
            run[r].pc = "Constructed" /\ order.kind = "increase"
      [] step = "skip_approval" ->
            run[r].pc = "Constructed" /\ (order.kind # "increase" \/ run[r].debug)
      [] step = "_get_prices" -> run[r].pc = "Approved"
      [] step = "determine_gas_limits" -> run[r].pc = "Priced"
      [] step = "_submit_transaction" -> run[r].pc = "Budgeted"

\* order.py:20-56, Order.__init__ up to the call of order_builder; the latest
\* block is read only when the caller gave no max_fee_per_gas
OrderInit(r) ==
    /\ run[r].pc = "Initialized"
    /\ \E f \in BaseFees :
         run' = [run EXCEPT ![r].pc = "Constructed",
                            ![r].stages = Append(@, "Initialized"),
                            ![r].maxFee = InitialMaxFee(order.callerFee, f),
                            ![r].feeBlock = IF order.callerFee = <<>> THEN <<f>> ELSE <<>>]
    /\ UNCHANGED <<txCount, pending, allowance, nativeBal, erc20Bal, gasStore,
                   order, approvalLog, wire>>

\* order.py:64-79, Order.check_for_approval: it calls check_if_approved with
\* approve=True hard-wired and does not catch what the call raises
CheckForApproval(r) ==
    /\ BuilderMayRun("check_for_approval", r)
    /\ CheckIfApprovedBalance(r, order.token, order.amount, run[r].maxFee, TRUE)

\* The allowance step is left out for orders that move no collateral in
SkipApproval(r) ==
    /\ BuilderMayRun("skip_approval", r)
    /\ run' = [run EXCEPT ![r].pc = "Approved"]
    /\ UNCHANGED <<txCount, pending, allowance, nativeBal, erc20Bal, gasStore,
                   order, approvalLog, wire>>

\* create_increase_order.py:36-54, create_decrease_order.py:31-50
DetermineGasLimits(r) ==
    /\ BuilderMayRun("determine_gas_limits", r)
    /\ run' = [run EXCEPT ![r].pc = "Budgeted", ![r].gasKey = GasKeyOf(order.kind),
                           ![r].stages = Append(@, "Budgeted")]
    /\ UNCHANGED <<txCount, pending, allowance, nativeBal, erc20Bal, gasStore,
                   order, approvalLog, wire>>

\* One call of _submit_transaction waits for the gateway at the transaction
\* count (order.py:93), at each of the two estimator calls (100) and at the
\* broadcast (111); between two of them the ledger, the datastore and the
\* other run go on.
\* order.py:85-94: the transaction count is read outside the try block, so an
\* exception of the gateway leaves _submit_transaction
SubmitTransactionNonce(r) ==
    /\ BuilderMayRun("_submit_transaction", r)
    /\ \E raises \in BOOLEAN :
         run' = [run EXCEPT
               ![r].pc = IF raises THEN "Aborted" ELSE "SubmitGas",
               ![r].nonceReads = @ + 1,
               ![r].countSeen = IF raises THEN @ ELSE txCount,
               ![r].failure = IF raises THEN "nonce" ELSE @,
               ![r].ended = IF raises THEN "raised" ELSE @,
               ![r].stages = IF raises THEN @ ELSE Append(@, "NonceRead")]
    /\ UNCHANGED <<txCount, pending, allowance, nativeBal, erc20Bal, gasStore,
                   order, approvalLog, wire>>

\* order.py:100: the first call of the estimator
SubmitTransactionGas(r) ==
    /\ run[r].pc = "SubmitGas"
    /\ run' = [run EXCEPT ![r].pc = "SubmitBuild",
                           ![r].gasReads = <<gasStore[run[r].gasKey]>>]
    /\ UNCHANGED <<txCount, pending, allowance, nativeBal, erc20Bal, gasStore,
                   order, approvalLog, wire>>

\* order.py:97-109 and 116-117: the second call of the estimator, the
\* envelope and, outside debug mode, the signature; an exception of
\* build_transaction or sign_transaction is caught and printed, and the call
\* returns
SubmitTransactionBuild(r) ==
    /\ run[r].pc = "SubmitBuild"
    /\ \E fault \in {"none", "build", "sign"} :
         LET first == run[r].gasReads[1]
             second == gasStore[run[r].gasKey]
             built == fault # "build"
             live == built /\ GoesLive(run[r].debug)
             signed == live /\ fault # "sign"
             env == OrderEnvelope(r, first, second, run[r].countSeen)
             failed == IF ~built THEN "build"
                       ELSE IF live /\ ~signed THEN "sign" ELSE None
         IN  run' = [run EXCEPT
                   ![r].pc = IF signed THEN "SubmitSend" ELSE "Done",
                   ![r].gasReads = <<first, second>>,
                   ![r].envelope = IF built THEN <<env>> ELSE <<>>,
                   ![r].signed = signed,
                   ![r].failure = failed,
                   ![r].ended = IF signed THEN @
                                ELSE IF failed = None THEN "returned"
                                ELSE SubmitEnds(fault),
                   ![r].stages = @ \o (IF built THEN <<"Enveloped">> ELSE <<>>)
                                   \o (IF signed THEN <<"Signed">> ELSE <<>>)
                                   \o (IF built /\ ~live THEN <<"Discarded">> ELSE <<>>),
                   ![r].returned = IF signed THEN @
                                   ELSE SubmitReturns(IF built THEN <<env>> ELSE <<>>, <<>>)]
    /\ UNCHANGED <<txCount, pending, allowance, nativeBal, erc20Bal, gasStore,
                   order, approvalLog, wire>>

\* order.py:110-117: the signed envelope is sent; a rejection is caught and
\* printed, and the call returns
SubmitTransactionSend(r) ==
    /\ run[r].pc = "SubmitSend"
    /\ \E fault \in {"none", "send"} :
         LET accepted == fault # "send"
             env == run[r].envelope[1]
             tx == [kind |-> "order", run |-> r, env |-> env, accepted |-> accepted]
         IN  /\ wire' = wire \o Broadcasts(tx, fault)
             /\ pending' = IF accepted THEN pending \cup {tx} ELSE pending
             /\ run' = [run EXCEPT
                   ![r].pc = "Done",
                   ![r].broadcasts = @ + Len(Broadcasts(tx, fault)),
                   ![r].txHash = IF accepted THEN <<"tx", r>> ELSE <<>>,
                   ![r].failure = IF accepted THEN None ELSE "send",
                   ![r].ended = IF accepted THEN "returned" ELSE SubmitEnds(fault),
                   ![r].stages = IF accepted THEN Append(@, "Broadcast") ELSE @,
                   ![r].returned = SubmitReturns(<<env>>,
                                                 IF accepted THEN <<"tx", r>> ELSE <<>>)]
    /\ UNCHANGED <<txCount, allowance, nativeBal, erc20Bal, gasStore, order,
                   approvalLog>>

\* ------------------------------------------------------- direct callers
DirectCalls == Cardinality({i \in DOMAIN approvalLog : approvalLog[i].caller = 0})

\* approve_token_for_spend.py:11-17: a caller other than the pipeline calls
\* check_if_approved, with either value of approve, one call after the other
DirectCheckIfApproved ==
    /\ DirectCalls < MaxDirectCalls
    /\ \A i \in DOMAIN approvalLog : CallDone(approvalLog[i])
    /\ \E approve \in BOOLEAN :
         CheckIfApprovedBalance(0, order.token, order.amount,
                                InitialMaxFee(order.callerFee, 10), approve)

\* ------------------------------------------------------------ the ledger
\* A pending transaction whose nonce is the account's next nonce is mined; an
\* approval sets the allowance to its amount; every other pending
\* transaction with that nonce is dropped.
Mine ==
    \E tx \in pending :
        /\ tx.env.nonce = txCount
        /\ txCount' = txCount + 1
        /\ allowance' = IF tx.kind = "approve" THEN tx.env.call[3] ELSE allowance
        /\ pending' = {t \in pending : t.env.nonce # tx.env.nonce}
        /\ UNCHANGED <<nativeBal, erc20Bal, gasStore, order, run, approvalLog, wire>>

\* The value under the order kind's key of the datastore is changed by the
\* protocol's governance while a submission is under way
StoreChanges ==
    /\ \E r \in Runs : run[r].pc \in {"SubmitGas", "SubmitBuild"}
    /\ \E v \in GasValues \ {gasStore[GasKeyOf(order.kind)]} :
         gasStore' = [gasStore EXCEPT ![GasKeyOf(order.kind)] = v]
    /\ UNCHANGED <<txCount, pending, allowance, nativeBal, erc20Bal, order, run,
                   approvalLog, wire>>

\* ================================================= OrderArgumentParser
\* A decimal numeral as the caller, the oracle or the source writes it:
\* mantissa x 10^exponent.
Num(m, e) == [m |-> m, e |-> e]

\* ---- unbounded naturals (Python int): the limbs of the number in base 2^15,
\* lowest limb first, without a zero limb at the top; <<>> is 0
Base == 2 ^ 15
LimbBits == 15

RECURSIVE Big(_)
Big(n) == IF n = 0 THEN <<>> ELSE <<n % Base>> \o Big(n \div Base)

RECURSIVE BigNorm(_)
BigNorm(a) ==
    IF a = <<>> THEN a
    ELSE IF a[Len(a)] = 0 THEN BigNorm(SubSeq(a, 1, Len(a) - 1)) ELSE a

Limb(a, i) == IF i <= Len(a) THEN a[i] ELSE 0

RECURSIVE BigAddFrom(_, _, _, _)
BigAddFrom(a, b, i, carry) ==
    IF i > Len(a) /\ i > Len(b)
    THEN IF carry = 0 THEN <<>> ELSE <<carry>>
    ELSE LET x == Limb(a, i) + Limb(b, i) + carry
         IN <<x % Base>> \o BigAddFrom(a, b, i + 1, x \div Base)

BigAdd(a, b) == BigAddFrom(a, b, 1, 0)

\* a - b for a >= b
RECURSIVE BigSubFrom(_, _, _, _)
BigSubFrom(a, b, i, borrow) ==
    IF i > Len(a) THEN <<>>
    ELSE LET x == a[i] - Limb(b, i) - borrow
         IN IF x < 0 THEN <<x + Base>> \o BigSubFrom(a, b, i + 1, 1)
            ELSE <<x>> \o BigSubFrom(a, b, i + 1, 0)

BigSub(a, b) == BigNorm(BigSubFrom(a, b, 1, 0))

\* a x k for a limb k
RECURSIVE BigMulLimbFrom(_, _, _, _)
BigMulLimbFrom(a, k, i, carry) ==
    IF i > Len(a) THEN IF carry = 0 THEN <<>> ELSE <<carry>>
    ELSE LET x == a[i] * k + carry
         IN <<x % Base>> \o BigMulLimbFrom(a, k, i + 1, x \div Base)

BigMulLimb(a, k) == IF k = 0 THEN <<>> ELSE BigMulLimbFrom(a, k, 1, 0)

BigShiftLimbs(a, n) == IF a = <<>> THEN a ELSE [i \in 1..n |-> 0] \o a

RECURSIVE BigMul(_, _)
BigMul(a, b) ==
    IF a = <<>> \/ b = <<>> THEN <<>>
    ELSE BigAdd(BigMulLimb(b, a[1]), BigShiftLimbs(BigMul(Tail(a), b), 1))

\* -1, 0 or 1 as a is below, equal to or above b
RECURSIVE BigCmpFrom(_, _, _)
BigCmpFrom(a, b, i) ==
    IF i = 0 THEN 0
    ELSE IF a[i] < b[i] THEN -1
    ELSE IF a[i] > b[i] THEN 1
    ELSE BigCmpFrom(a, b, i - 1)

BigCmp(a, b) ==
    IF Len(a) < Len(b) THEN -1
    ELSE IF Len(a) > Len(b) THEN 1
    ELSE BigCmpFrom(a, b, Len(a))

RECURSIVE Pow2(_)
Pow2(k) == IF k = 0 THEN 1 ELSE 2 * Pow2(k - 1)

RECURSIVE BitLen(_)
BitLen(n) == IF n = 0 THEN 0 ELSE 1 + BitLen(n \div 2)

BigBitLen(a) == IF a = <<>> THEN 0 ELSE LimbBits * (Len(a) - 1) + BitLen(a[Len(a)])

\* a x 2^s
BigShl(a, s) == BigShiftLimbs(BigMulLimb(a, Pow2(s % LimbBits)), s \div LimbBits)

\* the limbs 1..i of a \div d for a limb d, rem being the remainder of the
\* limbs above i
RECURSIVE BigDivLimbFrom(_, _, _, _)
BigDivLimbFrom(a, d, i, rem) ==
    IF i = 0 THEN <<>>
    ELSE LET x == rem * Base + a[i]
         IN BigDivLimbFrom(a, d, i - 1, x % d) \o <<x \div d>>

\* a without its n lowest limbs
BigDropLimbs(a, n) == IF n >= Len(a) THEN <<>> ELSE SubSeq(a, n + 1, Len(a))

\* floor(a / d) for a limb d
BigDivSmall(a, d) == BigNorm(BigDivLimbFrom(a, d, Len(a), 0))

\* floor(a / 2^s)
BigShr(a, s) == BigDivSmall(BigDropLimbs(a, s \div LimbBits), Pow2(s % LimbBits))

\* <<q, q x d # a>>: the quotient q of a by d with the mark of a remainder
BigWithRemainder(a, d, q) == <<q, BigMulLimb(q, d) # a>>

\* <<a \div d, a % d # 0>> for a limb d
BigDivLimb(a, d) == BigWithRemainder(a, d, BigDivSmall(a, d))

\* the result rest of the later divisions, marked when qr dropped a remainder
BigMarkDropped(qr, rest) == <<rest[1], rest[2] \/ qr[2]>>

\* <<floor(a / 10^k), whether a remainder was dropped>>, four digits at a time
RECURSIVE BigDivPow10(_, _)
RECURSIVE BigDivPow10After(_, _)
BigDivPow10After(qr, k) == BigMarkDropped(qr, BigDivPow10(qr[1], k))

BigDivPow10(a, k) ==
    IF k = 0 THEN <<a, FALSE>>
    ELSE IF k >= 4 THEN BigDivPow10After(BigDivLimb(a, 10000), k - 4)
    ELSE BigDivPow10After(BigDivLimb(a, 10), k - 1)

\* 10^k, by halving the exponent
RECURSIVE BigPow10(_)
BigPow10(k) ==
    IF k = 0 THEN <<1>>
    ELSE IF k = 1 THEN <<10>>
    ELSE BigMul(BigPow10(k \div 2), BigPow10(k - k \div 2))

\* ---- a Python number: an int (t = "int", value m, e = 0) or a float, an
\* IEEE 754 double m x 2^e with 2^52 <= m < 2^53 (0.0 is m = <<>>, e = 0).
\* The model's numbers are non-negative and stay clear of the subnormal and
\* the overflow range.
PyIntBig(n) == [t |-> "int", m |-> n, e |-> 0]
FloatZero == [t |-> "float", m |-> <<>>, e |-> 0]
MantissaBits == 53

\* The double nearest to (n + f) x 2^k, ties to even, where 0 <= f < 1 and
\* sticky tells f > 0 (n then has more than MantissaBits + 1 bits).
\* the mantissa q x 2^e, shifted down by one bit when rounding up made it
\* 2^MantissaBits
RoundCarry(q, e) ==
    IF BigBitLen(q) > MantissaBits
    THEN [t |-> "float", m |-> BigShr(q, 1), e |-> e + 1]
    ELSE [t |-> "float", m |-> q, e |-> e]

\* q or q + 1: c compares the bits cut off with one half
RoundTies(q, c, sticky) ==
    IF c = 1 \/ (c = 0 /\ (sticky \/ q[1] % 2 = 1)) THEN BigAdd(q, <<1>>) ELSE q

\* n is cut by s bits to q
RoundCut(n, q, s, k, sticky) ==
    RoundCarry(RoundTies(q, BigCmp(BigSub(n, BigShl(q, s)), BigShl(<<1>>, s - 1)),
                         sticky),
               k + s)

\* n has len bits
RoundBits(n, len, k, sticky) ==
    IF len <= MantissaBits
    THEN [t |-> "float", m |-> BigShl(n, MantissaBits - len),
          e |-> k - (MantissaBits - len)]
    ELSE RoundCut(n, BigShr(n, len - MantissaBits), len - MantissaBits, k, sticky)

RoundBig(n, k, sticky) ==
    IF n = <<>> THEN FloatZero ELSE RoundBits(n, BigBitLen(n), k, sticky)

\* the quotient and its mark rounded
RoundQuotient(qr, k) == RoundBig(qr[1], k, qr[2])

\* n x 2^t / 10^k rounded, t being large enough for the quotient to have
\* more than MantissaBits + 1 bits
FloatOfScaled(n, k, t) == RoundQuotient(BigDivPow10(BigShl(n, t), k), 0 - t)

\* the shift that a quotient of need more bits asks for
ShiftFor(need) == IF need > 0 THEN need ELSE 0

\* the double nearest to n / 10^k
FloatOfDecimal(n, k) ==
    IF n = <<>> THEN FloatZero
    ELSE FloatOfScaled(n, k,
             ShiftFor(MantissaBits + 2 + BigBitLen(BigPow10(k)) - BigBitLen(n)))

\* float(): of an int, or of the numeral in a string
ToFloat(x) == IF x.t = "float" THEN x ELSE RoundBig(x.m, 0, FALSE)

\* the int and the float that a numeral denotes
PyInt(d) == PyIntBig(BigMul(Big(d.m), BigPow10(d.e)))
PyFloat(d) ==
    IF d.e >= 0 THEN RoundBig(BigMul(Big(d.m), BigPow10(d.e)), 0, FALSE)
    ELSE FloatOfDecimal(Big(d.m), 0 - d.e)

\* x * y, x + y, x - y (x >= y): exact on two ints, otherwise both operands
\* are converted to float and the exact result is rounded once
FloatMul(a, b) == RoundBig(BigMul(a.m, b.m), a.e + b.e, FALSE)

FloatAdd(a, b) ==
    IF a.e >= b.e THEN RoundBig(BigAdd(BigShl(a.m, a.e - b.e), b.m), b.e, FALSE)
    ELSE RoundBig(BigAdd(a.m, BigShl(b.m, b.e - a.e)), a.e, FALSE)

FloatSub(a, b) ==
    IF a.e >= b.e THEN RoundBig(BigSub(BigShl(a.m, a.e - b.e), b.m), b.e, FALSE)
    ELSE RoundBig(BigSub(a.m, BigShl(b.m, b.e - a.e)), a.e, FALSE)

BothInt(x, y) == x.t = "int" /\ y.t = "int"

PyMul(x, y) ==
    IF BothInt(x, y) THEN PyIntBig(BigMul(x.m, y.m)) ELSE FloatMul(ToFloat(x), ToFloat(y))
PyAdd(x, y) ==
    IF BothInt(x, y) THEN PyIntBig(BigAdd(x.m, y.m)) ELSE FloatAdd(ToFloat(x), ToFloat(y))
PySub(x, y) ==
    IF BothInt(x, y) THEN PyIntBig(BigSub(x.m, y.m)) ELSE FloatSub(ToFloat(x), ToFloat(y))

\* x < y: Python compares an int and a float by their exact values
PyLess(x, y) ==
    IF x.e >= y.e THEN BigCmp(BigShl(x.m, x.e - y.e), y.m) < 0
    ELSE BigCmp(x.m, BigShl(y.m, y.e - x.e)) < 0

\* int(): the integer part
PyIntOf(x) ==
    IF x.t = "int" THEN x
    ELSE IF x.e >= 0 THEN PyIntBig(BigShl(x.m, x.e))
    ELSE PyIntBig(BigShr(x.m, 0 - x.e))

\* 10 ** k: an int for k >= 0, for k < 0 the float pow(10.0, k)
PyPow10(k) ==
    IF k >= 0 THEN PyIntBig(BigPow10(k)) ELSE FloatOfDecimal(<<1>>, 0 - k)

\* np.median of two values: their sum, rounded, divided by the count
HalfOf(sum) == IF sum.m = <<>> THEN sum ELSE [sum EXCEPT !.e = @ - 1]

Median2(a, b) == HalfOf(FloatAdd(ToFloat(a), ToFloat(b)))

PyZero == PyIntBig(<<>>)
PyOne == PyIntBig(<<1>>)
PyTwo == PyIntBig(<<2>>)

USDC == "0xaf88d065e77c8cC2239327C5EDb3A432268e5831"
Kinds == {"increase", "decrease", "swap"}
DictKeys ==
    {"chain", "index_token_address", "index_token_symbol", "market_key",
     "start_token_address", "start_token_symbol", "collateral_address",
     "collateral_token_symbol", "out_token_address", "out_token_symbol",
     "swap_path", "is_long", "size_delta_usd", "leverage",
     "initial_collateral_delta", "slippage_percent", "size_delta"}

EmptyDict == [k \in DictKeys |-> <<>>]
NotResolved ==
    [status |-> "idle", dict |-> EmptyDict, events |-> <<>>, error |-> <<>>,
     answers |-> <<>>, first |-> <<>>]

\* The registries and the oracle snapshot that the collaborators return
TokenRegistry ==
    [a \in {LegacyBTC, CanonBTC, WETH, USDC} |->
        CASE a = LegacyBTC -> [symbol |-> "BTC", decimals |-> 8]
          [] a = CanonBTC -> [symbol |-> "WBTC.b", decimals |-> 8]
          [] a = WETH -> [symbol |-> "ETH", decimals |-> 18]
          [] a = USDC -> [symbol |-> "USDC", decimals |-> 6]]

MarketRegistry ==
    [k \in {"market_BTC", "market_ETH"} |->
        IF k = "market_BTC" THEN LegacyBTC ELSE WETH]

\* prices carry 30 - decimals digits: USDC at 1.1 / 0.9 USD
OraclePrices ==
    [a \in {USDC, WETH} |->
        IF a = USDC THEN [maxPriceFull |-> Num(11, 23), minPriceFull |-> Num(9, 23)]
        ELSE [maxPriceFull |-> Num(3, 15), minPriceFull |-> Num(1, 15)]]

Has(dict, key) == dict[key] # <<>>
Get(dict, key) == dict[key][1]
Put(dict, key, value) == [dict EXCEPT ![key] = <<value>>]

Fail(st, kind, name) == [st EXCEPT !.error = <<kind, name>>]

\* the call has raised, or it waits for the answer to a request it has sent
Stopped(st) == st.error # <<>> \/ st.waiting
Event(st, e) == [st EXCEPT !.events = Append(@, e)]

\* Mutant: chain is the last required key
RequiredKeysLate(kind) ==
    CASE kind = "increase" ->
            <<"index_token_address", "market_key", "start_token_address",
              "collateral_address", "swap_path", "is_long", "size_delta_usd",
              "initial_collateral_delta", "slippage_percent", "chain">>
      [] kind = "decrease" ->
            <<"index_token_address", "market_key", "start_token_address",
              "collateral_address", "is_long", "size_delta_usd",
              "initial_collateral_delta", "slippage_percent", "chain">>
      [] kind = "swap" ->
            <<"start_token_address", "out_token_address",
              "initial_collateral_delta", "swap_path", "slippage_percent", "chain">>

\* order_argument_parser.py:30-63
RequiredKeys(kind) ==
    CASE kind = "increase" ->
            <<"chain", "index_token_address", "market_key", "start_token_address",
              "collateral_address", "swap_path", "is_long", "size_delta_usd",
              "initial_collateral_delta", "slippage_percent">>
      [] kind = "decrease" ->
            <<"chain", "index_token_address", "market_key", "start_token_address",
              "collateral_address", "is_long", "size_delta_usd",
              "initial_collateral_delta", "slippage_percent">>
      [] kind = "swap" ->
            <<"chain", "start_token_address", "out_token_address",
              "initial_collateral_delta", "swap_path", "slippage_percent">>

\* order_argument_parser.py:66-76
HandledKeys ==
    {"chain", "index_token_address", "market_key", "start_token_address",
     "out_token_address", "collateral_address", "swap_path", "is_long",
     "slippage_percent"}

\* order_argument_parser.py:119-130
DetermineMissingKeys(kind, dict) ==
    SelectSeq(RequiredKeys(kind), LAMBDA key : ~Has(dict, key))

\* order_argument_parser.py:132-136
HandleMissingChain(st) == Fail(st, "MissingField", "chain")

\* find_key_by_symbol: the address that a token dictionary lists under a symbol
FindKeyBySymbol(tokens, symbol) ==
    LET hits == {a \in DOMAIN tokens : tokens[a].symbol = symbol}
    IN IF hits = {} THEN <<>> ELSE <<CHOOSE a \in hits : TRUE>>

\* Mutant: the symbol is looked up as given
IndexSymbolLiteral(symbol) == symbol

\* order_argument_parser.py:144-145
IndexSymbolAlias(symbol) == IF symbol = "BTC" THEN "WBTC.b" ELSE symbol

\* gmx_utils.py:122-125: the chains that have a tokens URL
KnownChains == {"arbitrum", "avalanche"}

\* how the tokens API answers a request: with the token list, not at all
\* (requests.get raises a RequestException), or with an HTTP error status
\* (raise_for_status raises one)
TokensApiOutcomes == {"ok", "down", "http500"}

\* the dictionary without an entry
NoTokens == [a \in {} |-> [symbol |-> "", decimals |-> 0]]

\* gmx_utils.py:117-142, get_tokens_address_dict: url[chain] raises KeyError
\* for a chain without URL before any request is made; a request that fails
\* or is answered with an error status is caught and {} is returned
GetTokensAddressDict(chain, api) ==
    IF chain \notin KnownChains
    THEN [raised |-> <<"KeyError", chain>>, requests |-> 0, tokens |-> NoTokens]
    ELSE [raised |-> <<>>, requests |-> 1,
          tokens |-> IF api = "ok" THEN TokenRegistry ELSE NoTokens]

\* the token dictionary that the last call of get_tokens_address_dict made
\* for the request returned
TokensOf(st) == st.tokens

\* the call has returned got: its exception goes on to the caller, its
\* dictionary is what the statements after it read; the answer of the API is
\* used up when a request was sent
TokensReturned(st, got) ==
    IF got.raised # <<>> THEN [st EXCEPT !.error = got.raised]
    ELSE [Event(st, "lookup:tokens") EXCEPT
            !.tokens = got.tokens,
            !.answers = IF got.requests = 0 THEN @ ELSE Tail(@)]

\* a call of get_tokens_address_dict(parameters_dict['chain']): st.answers
\* are the answers of the tokens API that have arrived and are not yet used;
\* a request that is sent blocks the call until its answer arrives
TokensLookup(st) ==
    IF ~Has(st.dict, "chain") THEN Fail(st, "KeyError", "chain")
    ELSE IF Get(st.dict, "chain") \notin KnownChains
    THEN TokensReturned(st, GetTokensAddressDict(Get(st.dict, "chain"), "ok"))
    ELSE IF st.answers = <<>> THEN [st EXCEPT !.waiting = TRUE]
    ELSE TokensReturned(st, GetTokensAddressDict(Get(st.dict, "chain"),
                                                 Head(st.answers)))

\* the symbol that a derivation looks up
SymbolOf(st, symbolKey, alias) ==
    IF alias THEN IndexSymbolAlias(Get(st.dict, symbolKey))
    ELSE Get(st.dict, symbolKey)

\* the address found under the symbol is stored under key
StoreFound(st, key, symbol, found) ==
    IF found = <<>> THEN Fail(st, "UnknownToken", symbol)
    ELSE [st EXCEPT !.dict = Put(@, key, found[1])]

\* st is the request with the token dictionary fetched
DeriveFromTokens(st, key, symbol) ==
    IF Stopped(st) THEN st
    ELSE StoreFound(st, key, symbol, FindKeyBySymbol(TokensOf(st), symbol))

\* the derivation of an address from a symbol field of the request
DeriveAddress(st, key, symbolKey, alias) ==
    IF ~Has(st.dict, symbolKey) THEN Fail(Event(st, key), "MissingField", key)
    ELSE DeriveFromTokens(TokensLookup(Event(st, key)), key,
                          SymbolOf(st, symbolKey, alias))

\* order_argument_parser.py:138-154
HandleMissingIndexTokenAddress(st) ==
    DeriveAddress(st, "index_token_address", "index_token_symbol", TRUE)

\* order_argument_parser.py:162-164
MarketLookupAddress(address) == IF address = CanonBTC THEN LegacyBTC ELSE address

\* find_market_key_by_index_address
FindMarketKey(address) ==
    LET hits == {k \in DOMAIN MarketRegistry : MarketRegistry[k] = address}
    IN IF hits = {} THEN <<>> ELSE <<CHOOSE k \in hits : TRUE>>

\* order_argument_parser.py:156-171
HandleMissingMarketKey(st) ==
    LET s1 == Event(st, "market_key")
    IN IF ~Has(s1.dict, "index_token_address")
       THEN Fail(s1, "KeyError", "index_token_address")
       ELSE LET found == FindMarketKey(
                             MarketLookupAddress(Get(s1.dict, "index_token_address")))
                s2 == Event(s1, "lookup:markets")
            IN IF found = <<>> THEN Fail(s2, "UnknownMarket", "market_key")
               ELSE [s2 EXCEPT !.dict = Put(@, "market_key", found[1])]

\* the default swap path: empty when the start token is the collateral token,
\* a route between start and out token for a swap
HandleMissingSwapPath(kind, st) ==
    LET s1 == Event(st, "swap_path")
    IN IF kind = "swap"
       THEN [s1 EXCEPT !.dict = Put(@, "swap_path",
                <<Get(s1.dict, "start_token_address"), Get(s1.dict, "out_token_address")>>)]
       ELSE IF Get(s1.dict, "start_token_address") = Get(s1.dict, "collateral_address")
            THEN [s1 EXCEPT !.dict = Put(@, "swap_path", <<>>)]
            ELSE Fail(s1, "MissingField", "swap_path")

DefaultSlippage == PyFloat(Num(3, -3))

\* order_argument_parser.py:66-76 and 96-99: the handler of one missing key
HandleMissing(kind, st, key) ==
    CASE key = "chain" -> HandleMissingChain(st)
      [] key = "index_token_address" -> HandleMissingIndexTokenAddress(st)
      [] key = "market_key" -> HandleMissingMarketKey(st)
      [] key = "start_token_address" ->
            DeriveAddress(st, "start_token_address", "start_token_symbol", FALSE)
      [] key = "out_token_address" ->
            DeriveAddress(st, "out_token_address", "out_token_symbol", FALSE)
      [] key = "collateral_address" ->
            DeriveAddress(st, "collateral_address", "collateral_token_symbol", FALSE)
      [] key = "swap_path" -> HandleMissingSwapPath(kind, st)
      [] key = "is_long" -> Fail(Event(st, "is_long"), "MissingField", "is_long")
      [] key = "slippage_percent" ->
            [Event(st, "slippage_percent") EXCEPT
                !.dict = Put(@, "slippage_percent", DefaultSlippage)]
      [] OTHER -> st

\* order_argument_parser.py:96-99: the handlers run in the order of the
\* missing keys; the first exception ends the call
RECURSIVE HandleAll(_, _, _)
HandleAll(kind, st, keys) ==
    IF keys = <<>> \/ Stopped(st) THEN st
    ELSE HandleAll(kind,
                   IF Head(keys) \in HandledKeys THEN HandleMissing(kind, st, Head(keys))
                   ELSE st,
                   Tail(keys))

\* order_argument_parser.py:187-198: the median of the two price strings as
\* floats, times 10 ** (decimals - 30), times the collateral amount
\* tokens is the dictionary that the call of line 193 returned
CollateralUsd(dict, tokens) ==
    LET token == Get(dict, "start_token_address")
        price == Median2(PyFloat(OraclePrices[token].maxPriceFull),
                         PyFloat(OraclePrices[token].minPriceFull))
        oracleFactor == tokens[token].decimals - 30
    IN PyMul(PyMul(price, PyPow10(oracleFactor)),
             Get(dict, "initial_collateral_delta"))

\* order_argument_parser.py:193-195: the start token's entry is read from the
\* dictionary returned
StartTokenListed(st) ==
    IF Stopped(st) THEN st
    ELSE IF Get(st.dict, "start_token_address") \notin DOMAIN TokensOf(st)
    THEN Fail(st, "KeyError", Get(st.dict, "start_token_address"))
    ELSE st

\* order_argument_parser.py:184-195: st is the request with the oracle's
\* prices fetched
PriceAndDecimals(st) ==
    IF ~Has(st.dict, "start_token_address")
    THEN Fail(st, "KeyError", "start_token_address")
    ELSE IF Get(st.dict, "start_token_address") \notin DOMAIN OraclePrices
    THEN Fail(st, "KeyError", Get(st.dict, "start_token_address"))
    ELSE StartTokenListed(TokensLookup(st))

\* order_argument_parser.py:176-200: the lookups in the order of the
\* statements; a dictionary without the key raises KeyError naming the key
CalculateInitialCollateralUsd(st) ==
    IF ~Has(st.dict, "initial_collateral_delta")
    THEN Fail(st, "KeyError", "initial_collateral_delta")
    ELSE IF ~Has(st.dict, "chain") THEN Fail(st, "KeyError", "chain")
    ELSE PriceAndDecimals(Event(st, "oracle:prices"))

MaxLeverage == 100

\* calculate_missing_position_size_info_keys: the size is the leverage times
\* the collateral's value when the request leaves it out
CalculateMissingPositionSizeInfoKeys(st, usd) ==
    IF Has(st.dict, "size_delta_usd") THEN st
    ELSE IF Has(st.dict, "leverage")
    THEN [st EXCEPT !.dict = Put(@, "size_delta_usd",
                                 PyMul(Get(st.dict, "leverage"), usd))]
    ELSE Fail(st, "MissingField", "size_delta_usd")

\* _check_if_max_leverage_exceeded
CheckIfMaxLeverageExceeded(st, usd) ==
    IF Stopped(st) THEN st
    ELSE IF PyLess(PyMul(PyIntBig(Big(MaxLeverage)), usd), Get(st.dict, "size_delta_usd"))
    THEN Fail(st, "LeverageExceeded", "size_delta_usd")
    ELSE Event(st, "leverage_ok")

\* the two steps for a collateral worth usd
SizeAndLeverage(st, usd) ==
    CheckIfMaxLeverageExceeded(CalculateMissingPositionSizeInfoKeys(st, usd), usd)

\* st is the request with the lookups for the collateral's value made
PositionSizeAfterLookups(st) ==
    IF Stopped(st) THEN st
    ELSE SizeAndLeverage(st, CollateralUsd(st.dict, TokensOf(st)))

\* order_argument_parser.py:102-104
CheckPositionSize(st) ==
    IF ~Has(st.dict, "initial_collateral_delta")
    THEN Fail(Event(st, "position_size"), "MissingField", "initial_collateral_delta")
    ELSE PositionSizeAfterLookups(
             CalculateInitialCollateralUsd(Event(st, "position_size")))

\* Mutant: the floor is one dollar
BelowFloorOfOne(usd) == PyLess(usd, PyOne)

\* order_argument_parser.py:110
BelowFloor(usd) == PyLess(usd, PyTwo)

\* order_argument_parser.py:110-111: st is the request with the lookups for
\* the collateral's value made
FloorAfterLookups(st) ==
    IF Stopped(st) THEN st
    ELSE IF BelowFloor(CollateralUsd(st.dict, TokensOf(st)))
    THEN Fail(st, "CollateralTooLow", "initial_collateral_delta")
    ELSE st

\* order_argument_parser.py:106-111
CheckCollateralFloor(st) ==
    FloorAfterLookups(CalculateInitialCollateralUsd(Event(st, "collateral_floor")))

\* order_argument_parser.py:208-210 and 214-216: int(value * 10**k)
ScaledInt(value, k) == PyIntOf(PyMul(value, PyPow10(k)))

\* order_argument_parser.py:207-210
FormatSizeDelta(kind, st) ==
    IF kind = "swap" THEN st
    ELSE IF ~Has(st.dict, "size_delta_usd") THEN Fail(st, "KeyError", "size_delta_usd")
    ELSE [st EXCEPT !.dict = Put(@, "size_delta",
                                 ScaledInt(Get(st.dict, "size_delta_usd"), 30))]

\* order_argument_parser.py:211-213, the call of get_tokens_address_dict
FormatTokens(st) == IF Stopped(st) THEN st ELSE TokensLookup(st)

\* order_argument_parser.py:211-216, the decimals of the start token and the
\* amount scaled by them
FormatCollateralDelta(st) ==
    IF Stopped(st) THEN st
    ELSE IF ~Has(st.dict, "start_token_address")
    THEN Fail(st, "KeyError", "start_token_address")
    ELSE IF Get(st.dict, "start_token_address") \notin DOMAIN TokensOf(st)
    THEN Fail(st, "KeyError", Get(st.dict, "start_token_address"))
    ELSE IF ~Has(st.dict, "initial_collateral_delta")
    THEN Fail(st, "KeyError", "initial_collateral_delta")
    ELSE [st EXCEPT !.dict = Put(@, "initial_collateral_delta",
              ScaledInt(Get(st.dict, "initial_collateral_delta"),
                        TokensOf(st)[Get(st.dict, "start_token_address")].decimals))]

\* order_argument_parser.py:217, the print that reads size_delta
FormatPrint(st) ==
    IF Stopped(st) THEN st
    ELSE IF ~Has(st.dict, "size_delta") THEN Fail(st, "KeyError", "size_delta")
    ELSE st

\* order_argument_parser.py:202-218; size_delta is assigned before the token
\* dictionary is fetched, and the last statement reads size_delta
FormatSizeInfo(kind, st) ==
    FormatPrint(FormatCollateralDelta(FormatTokens(
        FormatSizeDelta(kind, Event(st, "format")))))

\* order_argument_parser.py:101-104
PositionStep(kind, st) ==
    IF Stopped(st) \/ kind = "swap" THEN st ELSE CheckPositionSize(st)

\* order_argument_parser.py:106-111
FloorStep(kind, st) ==
    IF Stopped(st) \/ kind # "increase" THEN st ELSE CheckCollateralFloor(st)

\* order_argument_parser.py:113-117
FormatStep(kind, st) == IF Stopped(st) THEN st ELSE FormatSizeInfo(kind, st)

\* order_argument_parser.py:78-117, a call as far as the answers of the tokens
\* API take it: answers[n] is the answer to the n-th request that the call
\* sends.  The result is the call's end, or with waiting the call blocked on
\* the request after the last answer, the dictionary as it is at that point.
ProcessParametersDictionary(kind, dict, answers) ==
    FormatStep(kind, FloorStep(kind, PositionStep(kind,
        HandleAll(kind,
                  [dict |-> dict, events |-> <<>>, error |-> <<>>,
                   answers |-> answers, tokens |-> NoTokens, waiting |-> FALSE],
                  DetermineMissingKeys(kind, dict)))))


\* =================================================== Order._get_prices
\* gmx_utils.PRECISION: oracle prices carry 30 - decimals digits
PRECISION == 30

\* Mutant: the long side gets the short side's factor and vice versa
SlippageAdjustedMirrored(price, slippagePercent, isLong, isOpen, isClose) ==
    IF isOpen
    THEN IF isLong THEN PyMul(price, PySub(PyOne, slippagePercent))
         ELSE PyMul(price, PyAdd(PyOne, slippagePercent))
    ELSE IF isClose
    THEN IF isLong THEN PyMul(price, PyAdd(PyOne, slippagePercent))
         ELSE PyMul(price, PySub(PyOne, slippagePercent))
    ELSE PyZero

\* order.py:131-136: the local variable slippage
SlippageAdjusted(price, slippagePercent, isLong, isOpen, isClose) ==
    IF isOpen
    THEN IF isLong THEN PyMul(price, PyAdd(PyOne, slippagePercent))
         ELSE PyMul(price, PySub(PyOne, slippagePercent))
    ELSE IF isClose
    THEN IF isLong THEN PyMul(price, PySub(PyOne, slippagePercent))
         ELSE PyMul(price, PyAdd(PyOne, slippagePercent))
    ELSE PyZero

\* order.py:140: int(slippage) * 10 ** (decimals - PRECISION)
AcceptablePrice(slippage, decimals) ==
    PyMul(PyIntOf(slippage), PyPow10(decimals - PRECISION))

NoQuote ==
    [decimals |-> 0, prices |-> <<>>, token |-> None, slippagePercent |-> PyZero,
     isLong |-> FALSE, isOpen |-> FALSE, isClose |-> FALSE, isSwap |-> FALSE]

NotPriced ==
    [status |-> "idle", error |-> <<>>, price |-> PyZero, slippage |-> PyZero,
     returned |-> <<>>]

\* order.py:119-147, one whole call: the median of the two price strings as
\* floats, the slippage-adjusted value and the tuple returned; a token missing
\* from the prices raises
GetPricesResult(q) ==
    IF q.token \notin DOMAIN q.prices
    THEN [status |-> "done", error |-> <<"KeyError", q.token>>,
          price |-> PyZero, slippage |-> PyZero, returned |-> <<>>]
    ELSE LET price == Median2(PyFloat(q.prices[q.token].maxPriceFull),
                              PyFloat(q.prices[q.token].minPriceFull))
             slippage == SlippageAdjusted(price, q.slippagePercent, q.isLong,
                                          q.isOpen, q.isClose)
         IN [status |-> "done", error |-> <<>>, price |-> price,
             slippage |-> slippage,
             returned |-> <<price, PyIntOf(slippage),
                            AcceptablePrice(slippage, q.decimals)>>]

\* the quotes (minPriceFull, maxPriceFull) that the oracle gives for the
\* order's token while the pipeline runs, and the one it gives while the
\* price stands still
OracleQuotes ==
    {<<Num(60000, 22), Num(60010, 22)>>, <<Num(60020, 22), Num(60030, 22)>>}
SteadyQuotes == {<<Num(60000, 22), Num(60010, 22)>>}

\* the oracle's recent prices: the quote of the order's token, or a snapshot
\* that does not list the token
RecentPrices(token, q, available) ==
    IF available
    THEN [a \in {token} |-> [minPriceFull |-> q[1], maxPriceFull |-> q[2]]]
    ELSE <<>>

\* Order.order_builder: the arguments it passes to _get_prices for the order,
\* a long position opened by an increase and closed by a decrease order
PriceArguments(token, kind, q, available) ==
    [decimals |-> TokenRegistry[token].decimals,
     prices |-> RecentPrices(token, q, available), token |-> token,
     slippagePercent |-> DefaultSlippage, isLong |-> TRUE,
     isOpen |-> kind = "increase", isClose |-> kind = "decrease",
     isSwap |-> FALSE]

\* what _get_prices returns or raises for each order and each answer of the
\* oracle
OrderPrices ==
    [token \in Tokens, kind \in {"increase", "decrease"}, q \in OracleQuotes,
     available \in BOOLEAN |->
        GetPricesResult(PriceArguments(token, kind, q, available))]

\* the run after _get_prices has returned or raised result for the quote q
PricedRun(r, q, result) ==
    [run EXCEPT
        ![r].pc = IF result.error = <<>> THEN "Priced" ELSE "Aborted",
        ![r].stages = IF result.error = <<>> THEN Append(@, "Priced") ELSE @,
        ![r].priceCalls = @ + 1,
        ![r].quote = IF result.error = <<>> THEN <<q>> ELSE @,
        ![r].price = result.returned,
        ![r].ended = IF result.error = <<>> THEN @ ELSE "raised"]

\* order.py:119-147, Order._get_prices called by order_builder with the quote
\* that the oracle gives at that moment, one of quotes: the execution price
\* it returns goes into the order's call arguments; a token missing from the
\* oracle's snapshot raises, and the exception is re-raised to the caller
GetPrices(r, quotes) ==
    /\ BuilderMayRun("_get_prices", r)
    /\ \E available \in BOOLEAN, q \in quotes :
         run' = PricedRun(r, q, OrderPrices[order.token, order.kind, q, available])
    /\ UNCHANGED <<txCount, pending, allowance, nativeBal, erc20Bal, gasStore,
                   order, approvalLog, wire>>


\* ==================================================== execute_threading
\* gmx_utils.py:37-41.  The caller hands a list of calls to executor.map, which
\* submits them one after the other in the caller's thread, one future and one
\* work item per call, while the workers already run the calls submitted
\* before.  A worker thread takes the work items from the work queue in order;
\* between taking an item and marking its future running the future is still
\* pending, so another worker that took a later item can start first and the
\* caller can cancel the future.  list() takes the futures' results in the
\* order of the input and blocks on a future that is not done.  A call that
\* raises makes list() raise when its result is taken: the caller then cancels
\* the futures behind it one by one, the last submitted first, and a cancel
\* succeeds only on a future that is still pending.  Leaving the with block
\* waits for the workers, which run every work item whose future was not
\* cancelled and drop the others.
\*   queued    the futures that are pending, in the order of submission
\*   workQueue the work items no worker has taken yet
\*   taken     the work items a worker holds and has not begun to run
\*   tried     the cancel calls the caller has made after an exception
NoPool ==
    [pc |-> "idle", calls |-> <<>>, maxWorkers |-> 0, submitted |-> 0,
     workQueue |-> <<>>, taken |-> {}, queued |-> <<>>,
     running |-> {}, done |-> {}, cancelled |-> {}, finishOrder |-> <<>>,
     results |-> <<>>, failed |-> FALSE, tried |-> 0, returned |-> <<>>]

\* gmx_utils.py:39: ThreadPoolExecutor() without max_workers makes a pool of
\* min(32, os.cpu_count() + 4) workers
DefaultMaxWorkers(cpus) == IF cpus + 4 < 32 THEN cpus + 4 ELSE 32

\* the processors of the machines the pool is made on
CpuCounts == {1, 4}

\* Mutant: results are taken as the workers finish
NextToCollectAsCompleted(p) ==
    IF \E i \in DOMAIN p.finishOrder : i > Len(p.results)
    THEN p.finishOrder[Len(p.results) + 1]
    ELSE Len(p.calls) + 1

\* gmx_utils.py:40: executor.map yields the results in the order of the calls
NextToCollect(p) == Len(p.results) + 1

\* gmx_utils.py:39-40: the with block is entered and map submits the calls
\* of the list one by one; a step is one submit, which makes the future and
\* puts its work item into the work queue, and after the last one list()
\* starts to take the results.  Without calls there is nothing to submit or
\* to take.
ExecMap ==
    /\ pool.pc = "called"
    /\ pool' = IF pool.calls = <<>> THEN [pool EXCEPT !.pc = "shutdown"]
               ELSE [pool EXCEPT
                       !.submitted = @ + 1,
                       !.workQueue = Append(@, pool.submitted + 1),
                       !.queued = Append(@, pool.submitted + 1),
                       !.pc = IF pool.submitted + 1 = Len(pool.calls)
                              THEN "collecting" ELSE "called"]
    /\ UNCHANGED <<pipelineVars, parserVars, priceVars>>

\* a worker thread of the executor that holds no work item takes the next one
\* from the work queue; the item's future stays as it is
WorkerTake ==
    /\ pool.workQueue # <<>>
    /\ Cardinality(pool.taken \cup pool.running) < pool.maxWorkers
    /\ pool' = [pool EXCEPT !.workQueue = Tail(@),
                            !.taken = @ \cup {Head(pool.workQueue)}]
    /\ UNCHANGED <<pipelineVars, parserVars, priceVars>>

\* the worker that took the work item of call i begins to run it: the future
\* is marked running, or the item is dropped when the future was cancelled
WorkerStart(i) ==
    /\ i \in pool.taken
    /\ pool' = IF i \in pool.cancelled
               THEN [pool EXCEPT !.taken = @ \ {i}]
               ELSE [pool EXCEPT !.taken = @ \ {i},
                                 !.queued = SelectSeq(@, LAMBDA j : j # i),
                                 !.running = @ \cup {i}]
    /\ UNCHANGED <<pipelineVars, parserVars, priceVars>>

\* gmx_utils.py:33-35: execute_call returns or raises in a worker thread
WorkerFinish(i) ==
    /\ i \in pool.running
    /\ pool' = [pool EXCEPT !.running = @ \ {i}, !.done = @ \cup {i},
                            !.finishOrder = Append(@, i)]
    /\ UNCHANGED <<pipelineVars, parserVars, priceVars>>

\* gmx_utils.py:40: list() takes the next result, or the call's exception;
\* after an exception the futures behind the call are to be cancelled
Collect ==
    /\ pool.pc = "collecting"
    /\ NextToCollect(pool) \in pool.done
    /\ LET i == NextToCollect(pool)
       IN IF pool.calls[i] = "raise"
          THEN pool' = [pool EXCEPT
                  !.failed = TRUE,
                  !.pc = IF i = Len(pool.calls) THEN "shutdown" ELSE "cancelling"]
          ELSE pool' = [pool EXCEPT
                  !.results = Append(@, pool.calls[i]),
                  !.pc = IF Len(pool.results) + 1 = Len(pool.calls)
                         THEN "shutdown" ELSE "collecting"]
    /\ UNCHANGED <<pipelineVars, parserVars, priceVars>>

\* gmx_utils.py:40: one cancel call of the caller after an exception, made on
\* the futures behind the one that raised, the last submitted first.  It
\* cancels a future that is pending (isPending), whether or not a worker holds
\* its work item, and does nothing to one that is running or done; the loop
\* ends with the future next to the one that raised.
CancelNext ==
    /\ pool.pc = "cancelling"
    /\ \E f \in {Len(pool.calls) - pool.tried} :
       \E isPending \in {\E k \in DOMAIN pool.queued : pool.queued[k] = f} :
         pool' = [pool EXCEPT
            !.tried = @ + 1,
            !.cancelled = IF isPending THEN @ \cup {f} ELSE @,
            !.queued = IF isPending THEN SelectSeq(@, LAMBDA j : j # f) ELSE @,
            !.pc = IF f = NextToCollect(pool) + 1 THEN "shutdown" ELSE "cancelling"]
    /\ UNCHANGED <<pipelineVars, parserVars, priceVars>>

\* gmx_utils.py:39-41: the with block is left (shutdown waits for the workers,
\* which end when the work queue is empty) and the list is returned, or the
\* exception goes on to the caller
ExecReturn ==
    /\ pool.pc = "shutdown"
    /\ pool.running = {} /\ pool.taken = {} /\ pool.workQueue = <<>>
    /\ pool' = [pool EXCEPT !.pc = IF pool.failed THEN "raised" ELSE "returned",
                            !.returned = IF pool.failed THEN <<>> ELSE <<pool.results>>]
    /\ UNCHANGED <<pipelineVars, parserVars, priceVars>>


\* ------------------------------------------------------ specification
\* The wallet holds MaxAmount - 1 units of the native asset and of the
\* canonical BTC token, so both outcomes of the balance check occur on both
\* kinds of balance read; the token contracts at the other two addresses
\* report a balance of 0.
InitNativeBal == MaxAmount - 1
InitErc20Bal == [t \in Tokens |-> IF t = CanonBTC THEN MaxAmount - 1 ELSE 0]

InitOrders ==
    {[token |-> t, amount |-> a, kind |-> k, callerFee |-> f,
      args |-> <<"createOrder", k, t, a>>,
      value |-> IF t = WETH THEN a ELSE 0, chainId |-> "chain_id"] :
        t \in Tokens, a \in 1..MaxAmount, k \in {"increase", "decrease"},
        f \in CallerFees}

LedgerInit ==
    /\ txCount = 0
    /\ pending = {}
    /\ allowance \in {0, MaxAmount}
    /\ nativeBal = InitNativeBal
    /\ erc20Bal = InitErc20Bal
    /\ gasStore = [k \in GasKeys |-> IF k = "increase_order" THEN 1 ELSE MaxGas]
    /\ order \in InitOrders
    /\ run \in {[r \in Runs |-> NewRun(d[r])] :
                   d \in {<<FALSE, FALSE>>, <<TRUE, FALSE>>, <<TRUE, TRUE>>}}
    /\ approvalLog = <<>>
    /\ wire = <<>>

\* the parser, the price call and the thread pool are not in use
OthersIdle ==
    /\ parserKind = "increase"
    /\ request = EmptyDict
    /\ resolution = NotResolved
    /\ pipelineCalls = 0
    /\ quote = NoQuote
    /\ priced = NotPriced
    /\ pool = NoPool

\* two pipeline runs for one order in the canonical BTC token or in WETH
Init ==
    /\ LedgerInit
    /\ order.token \in {CanonBTC, WETH}
    /\ OthersIdle

Next ==
    \/ \E r \in Runs : OrderInit(r) /\ UNCHANGED <<parserVars, priceVars, pool>>
    \/ \E r \in Runs : CheckForApproval(r) /\ UNCHANGED <<parserVars, priceVars, pool>>
    \/ \E r \in Runs : SkipApproval(r) /\ UNCHANGED <<parserVars, priceVars, pool>>
    \/ \E r \in Runs :
          GetPrices(r, SteadyQuotes) /\ UNCHANGED <<parserVars, priceVars, pool>>
    \/ \E r \in Runs : DetermineGasLimits(r) /\ UNCHANGED <<parserVars, priceVars, pool>>
    \/ \E i \in DOMAIN approvalLog :
          CheckIfApprovedAllowance(i) /\ UNCHANGED <<parserVars, priceVars, pool>>
    \/ \E i \in DOMAIN approvalLog :
          CheckIfApprovedNonce(i) /\ UNCHANGED <<parserVars, priceVars, pool>>
    \/ \E i \in DOMAIN approvalLog :
          CheckIfApprovedSend(i) /\ UNCHANGED <<parserVars, priceVars, pool>>
    \/ \E r \in Runs : SubmitTransactionNonce(r) /\ UNCHANGED <<parserVars, priceVars, pool>>
    \/ \E r \in Runs : SubmitTransactionGas(r) /\ UNCHANGED <<parserVars, priceVars, pool>>
    \/ \E r \in Runs : SubmitTransactionBuild(r) /\ UNCHANGED <<parserVars, priceVars, pool>>
    \/ \E r \in Runs : SubmitTransactionSend(r) /\ UNCHANGED <<parserVars, priceVars, pool>>
    \/ StoreChanges /\ UNCHANGED <<parserVars, priceVars, pool>>
    \/ Mine /\ UNCHANGED <<parserVars, priceVars, pool>>

Spec == Init /\ [][Next]_vars

\* the same order run twice with the first run in debug mode, while the
\* oracle's price moves: a run gets the quote of the moment at which it asks
InitSimulate ==
    /\ Init
    /\ run[1].debug

NextSimulate ==
    \/ \E r \in Runs : OrderInit(r) /\ UNCHANGED <<parserVars, priceVars, pool>>
    \/ \E r \in Runs : CheckForApproval(r) /\ UNCHANGED <<parserVars, priceVars, pool>>
    \/ \E r \in Runs : SkipApproval(r) /\ UNCHANGED <<parserVars, priceVars, pool>>
    \/ \E r \in Runs :
          GetPrices(r, OracleQuotes) /\ UNCHANGED <<parserVars, priceVars, pool>>
    \/ \E r \in Runs : DetermineGasLimits(r) /\ UNCHANGED <<parserVars, priceVars, pool>>
    \/ \E i \in DOMAIN approvalLog :
          CheckIfApprovedAllowance(i) /\ UNCHANGED <<parserVars, priceVars, pool>>
    \/ \E i \in DOMAIN approvalLog :
          CheckIfApprovedNonce(i) /\ UNCHANGED <<parserVars, priceVars, pool>>
    \/ \E i \in DOMAIN approvalLog :
          CheckIfApprovedSend(i) /\ UNCHANGED <<parserVars, priceVars, pool>>
    \/ \E r \in Runs : SubmitTransactionNonce(r) /\ UNCHANGED <<parserVars, priceVars, pool>>
    \/ \E r \in Runs : SubmitTransactionGas(r) /\ UNCHANGED <<parserVars, priceVars, pool>>
    \/ \E r \in Runs : SubmitTransactionBuild(r) /\ UNCHANGED <<parserVars, priceVars, pool>>
    \/ \E r \in Runs : SubmitTransactionSend(r) /\ UNCHANGED <<parserVars, priceVars, pool>>
    \/ StoreChanges /\ UNCHANGED <<parserVars, priceVars, pool>>
    \/ Mine /\ UNCHANGED <<parserVars, priceVars, pool>>

SpecSimulate == InitSimulate /\ [][NextSimulate]_vars

\* check_if_approved called by a caller other than the pipeline
NextAllowance ==
    \/ DirectCheckIfApproved /\ UNCHANGED <<parserVars, priceVars, pool>>
    \/ \E i \in DOMAIN approvalLog :
          CheckIfApprovedAllowance(i) /\ UNCHANGED <<parserVars, priceVars, pool>>
    \/ \E i \in DOMAIN approvalLog :
          CheckIfApprovedNonce(i) /\ UNCHANGED <<parserVars, priceVars, pool>>
    \/ \E i \in DOMAIN approvalLog :
          CheckIfApprovedSend(i) /\ UNCHANGED <<parserVars, priceVars, pool>>
    \/ Mine /\ UNCHANGED <<parserVars, priceVars, pool>>

InitAllowance == LedgerInit /\ OthersIdle

SpecAllowance == InitAllowance /\ [][NextAllowance]_vars


\* -------------------------------------------- specification of the parser
\* A key of the dictionary is absent (<<>>) or present with a value; market_key
\* may also be present with the value None, which "key not in parameters_dict"
\* (order_argument_parser.py:130) does not count as missing.
MaxCollateral == 3

\* the values a caller passes: whole numbers as int, fractions as float
Optional(S) == {<<>>} \cup {<<v>> : v \in S}
CollateralValues == {PyInt(Num(n, 0)) : n \in 0..MaxCollateral}

\* size_delta_usd and leverage: neither, one of them, or both
Sizings ==
    {<<<<>>, <<>>>>, <<<<PyInt(Num(100, 0))>>, <<>>>>, <<<<>>, <<PyInt(Num(10, 0))>>>>,
     <<<<PyInt(Num(100, 0))>>, <<PyInt(Num(10, 0))>>>>}
MoreSizings ==
    {<<<<PyInt(Num(500, 0))>>, <<>>>>, <<<<PyFloat(Num(2505, -1))>>, <<>>>>}

\* the fields that have a handler which needs no lookup
PlainFields == {"collateral_address", "swap_path", "is_long", "slippage_percent"}

\* which of them a request has: all, all but one, or all but swap_path and
\* slippage_percent, the two that their handlers can fill in
PlainFieldPatterns ==
    {has \in SUBSET PlainFields :
        \/ Cardinality(PlainFields \ has) <= 1
        \/ PlainFields \ has = {"swap_path", "slippage_percent"}}

\* The requests passed to a parser of one kind: the patterns of fields
\* present and absent, and for the fields that the kind reads more than one
\* value; "base" is a chain without tokens URL and the canonical BTC token has
\* no price in the oracle's snapshot
RequestsOf(kind) ==
    {[k \in DictKeys |->
        CASE k = "chain" -> c
          [] k = "index_token_address" -> IF ix = "address" THEN <<CanonBTC>> ELSE <<>>
          [] k = "index_token_symbol" -> IF ix \in {"BTC", "ETH"} THEN <<ix>> ELSE <<>>
          [] k = "market_key" -> mk
          [] k = "start_token_address" -> IF st \in {USDC, CanonBTC} THEN <<st>> ELSE <<>>
          [] k = "start_token_symbol" -> IF st = "symbol" THEN <<"USDC">> ELSE <<>>
          [] k = "collateral_address" ->
                IF k \in has THEN <<USDC>> ELSE <<>>
          [] k = "out_token_address" -> ot
          [] k = "swap_path" -> IF k \in has THEN <<<<>>>> ELSE <<>>
          [] k = "is_long" -> IF k \in has THEN <<TRUE>> ELSE <<>>
          [] k = "size_delta_usd" -> sz[1]
          [] k = "leverage" -> sz[2]
          [] k = "initial_collateral_delta" -> cd
          [] k = "slippage_percent" ->
                IF k \in has THEN <<PyFloat(Num(5, -3))>> ELSE <<>>
          [] OTHER -> <<>>] :
        c \in {<<>>, <<"arbitrum">>, <<"base">>},
        ix \in IF kind = "swap" THEN {"none", "address"}
               ELSE {"none", "address", "BTC", "ETH"},
        mk \in IF kind = "swap" THEN {<<>>, <<"market_BTC">>}
               ELSE {<<>>, <<"market_BTC">>, <<None>>},
        st \in {"none", USDC, CanonBTC, "symbol"},
        has \in PlainFieldPatterns,
        ot \in IF kind = "swap" THEN {<<>>, <<WETH>>} ELSE {<<>>},
        sz \in IF kind = "swap" THEN Sizings ELSE Sizings \cup MoreSizings,
        cd \in Optional(CollateralValues)}

\* the state of the call that the answers received so far leave: blocked on
\* the next request, or ended
CallState(result, waitingStatus, endStatus, answers, first) ==
    [status |-> IF result.waiting THEN waitingStatus ELSE endStatus,
     dict |-> result.dict, events |-> result.events, error |-> result.error,
     answers |-> answers, first |-> first]

\* The caller passes the dictionary to a parser of one kind; the call runs
\* until it sends a request to the tokens API, or to its end without one
Resolve ==
    /\ resolution.status = "idle"
    /\ resolution' = CallState(ProcessParametersDictionary(parserKind, request, <<>>),
                               "waiting", "done", <<>>, <<>>)
    /\ UNCHANGED <<parserKind, request, pipelineCalls>>
    /\ UNCHANGED <<pipelineVars, priceVars, pool>>

\* gmx_utils.py:127-134: the tokens API answers the request that the first
\* call waits for, and the call runs on to its next request or to its end
TokensApiAnswers ==
    /\ resolution.status = "waiting"
    /\ \E outcome \in TokensApiOutcomes :
          resolution' = CallState(
              ProcessParametersDictionary(parserKind, request,
                                          Append(resolution.answers, outcome)),
              "waiting", "done", Append(resolution.answers, outcome), <<>>)
    /\ UNCHANGED <<parserKind, request, pipelineCalls>>
    /\ UNCHANGED <<pipelineVars, priceVars, pool>>

\* The caller passes the dictionary that a successful call returned to the
\* parser a second time; the dictionary of the first call is kept for
\* comparison
ResolveAgain ==
    /\ resolution.status = "done"
    /\ resolution.error = <<>>
    /\ pipelineCalls = 0
    /\ resolution' = CallState(
          ProcessParametersDictionary(parserKind, resolution.dict, <<>>),
          "waitingAgain", "again", <<>>, <<resolution.dict>>)
    /\ UNCHANGED <<parserKind, request, pipelineCalls>>
    /\ UNCHANGED <<pipelineVars, priceVars, pool>>

\* the tokens API answers the request that the second call waits for
TokensApiAnswersAgain ==
    /\ resolution.status = "waitingAgain"
    /\ \E outcome \in TokensApiOutcomes :
          resolution' = CallState(
              ProcessParametersDictionary(parserKind, resolution.first[1],
                                          Append(resolution.answers, outcome)),
              "waitingAgain", "again", Append(resolution.answers, outcome),
              resolution.first)
    /\ UNCHANGED <<parserKind, request, pipelineCalls>>
    /\ UNCHANGED <<pipelineVars, priceVars, pool>>

\* The caller builds the order from the dictionary that the parser returned;
\* an exception of the parser leaves the caller without one
BuildOrder ==
    /\ resolution.status = "done"
    /\ resolution.error = <<>>
    /\ pipelineCalls = 0
    /\ pipelineCalls' = 1
    /\ UNCHANGED <<parserKind, request, resolution>>
    /\ UNCHANGED <<pipelineVars, priceVars, pool>>

InitResolve ==
    /\ txCount = 0
    /\ pending = {}
    /\ allowance = 0
    /\ nativeBal = InitNativeBal
    /\ erc20Bal = InitErc20Bal
    /\ gasStore = [k \in GasKeys |-> IF k = "increase_order" THEN 1 ELSE MaxGas]
    /\ order = CHOOSE o \in InitOrders : TRUE
    /\ run = [r \in Runs |-> NewRun(FALSE)]
    /\ approvalLog = <<>>
    /\ wire = <<>>
    /\ parserKind \in Kinds
    /\ request \in RequestsOf(parserKind)
    /\ resolution = NotResolved
    /\ pipelineCalls = 0
    /\ quote = NoQuote
    /\ priced = NotPriced
    /\ pool = NoPool

NextResolve ==
    \/ Resolve
    \/ TokensApiAnswers
    \/ BuildOrder
    \/ ResolveAgain
    \/ TokensApiAnswersAgain

SpecResolve == InitResolve /\ [][NextResolve]_vars

\* ------------------------------------------ specification of _get_prices
MaxSlippageSteps == 2

\* slippage tolerances in steps of 0.3 percent
Slippages == {PyFloat(Num(3 * k, -3)) : k \in 0..MaxSlippageSteps}

\* (minPriceFull, maxPriceFull) pairs as the oracle reports them
QuotePairs ==
    {<<Num(60000, 22), Num(60010, 22)>>, <<Num(9, 23), Num(11, 23)>>,
     <<Num(5, 12), Num(5, 12)>>, <<Num(7, 0), Num(8, 0)>>}

Quotes ==
    {[decimals |-> d,
      prices |-> [a \in {listed} |-> [minPriceFull |-> p[1], maxPriceFull |-> p[2]]],
      token |-> CanonBTC, slippagePercent |-> s,
      isLong |-> l, isOpen |-> o, isClose |-> c, isSwap |-> w] :
        d \in {6, 8, 18}, listed \in {CanonBTC, WETH}, p \in QuotePairs,
        s \in Slippages, l \in BOOLEAN, o \in BOOLEAN, c \in BOOLEAN,
        w \in BOOLEAN}

\* The order builder calls _get_prices with the oracle's recent prices
CallGetPrices ==
    /\ priced.status = "idle"
    /\ priced' = GetPricesResult(quote)
    /\ UNCHANGED <<quote, pipelineVars, parserVars, pool>>

InitPrices ==
    /\ txCount = 0
    /\ pending = {}
    /\ allowance = 0
    /\ nativeBal = InitNativeBal
    /\ erc20Bal = InitErc20Bal
    /\ gasStore = [k \in GasKeys |-> IF k = "increase_order" THEN 1 ELSE MaxGas]
    /\ order = CHOOSE o \in InitOrders : TRUE
    /\ run = [r \in Runs |-> NewRun(FALSE)]
    /\ approvalLog = <<>>
    /\ wire = <<>>
    /\ parserKind = "increase"
    /\ request = EmptyDict
    /\ resolution = NotResolved
    /\ pipelineCalls = 0
    /\ quote \in Quotes
    /\ priced = NotPriced
    /\ pool = NoPool

NextPrices == CallGetPrices

SpecPrices == InitPrices /\ [][NextPrices]_vars

\* -------------------------------------- specification of execute_threading
MaxCalls == 3

\* what a call returns: one of two values, or it raises
CallResults == {"x", "y", "raise"}

CallLists ==
    UNION {[1..n -> CallResults] : n \in 0..MaxCalls}

InitThreading ==
    /\ txCount = 0
    /\ pending = {}
    /\ allowance = 0
    /\ nativeBal = InitNativeBal
    /\ erc20Bal = InitErc20Bal
    /\ gasStore = [k \in GasKeys |-> IF k = "increase_order" THEN 1 ELSE MaxGas]
    /\ order = CHOOSE o \in InitOrders : TRUE
    /\ run = [r \in Runs |-> NewRun(FALSE)]
    /\ approvalLog = <<>>
    /\ wire = <<>>
    /\ parserKind = "increase"
    /\ request = EmptyDict
    /\ resolution = NotResolved
    /\ pipelineCalls = 0
    /\ quote = NoQuote
    /\ priced = NotPriced
    /\ \E c \in CallLists, cpus \in CpuCounts :
         pool = [NoPool EXCEPT !.pc = "called", !.calls = c,
                               !.maxWorkers = DefaultMaxWorkers(cpus)]

NextThreading ==
    \/ ExecMap
    \/ WorkerTake
    \/ \E i \in 1..MaxCalls : WorkerStart(i)
    \/ \E i \in 1..MaxCalls : WorkerFinish(i)
    \/ Collect
    \/ CancelNext
    \/ ExecReturn

SpecThreading == InitThreading /\ [][NextThreading]_vars

\* =================================================================== claims
LogPairs == {i \in DOMAIN approvalLog : i + 1 \in DOMAIN approvalLog}

\* two consecutive calls with identical inputs, approve=True, balance >= amount
SameInputPair(i) ==
    /\ approvalLog[i].approve /\ approvalLog[i + 1].approve
    /\ approvalLog[i].token = approvalLog[i + 1].token
    /\ approvalLog[i].amount = approvalLog[i + 1].amount
    /\ approvalLog[i].balanceSeen >= approvalLog[i].amount
    /\ approvalLog[i + 1].balanceSeen >= approvalLog[i + 1].amount

SentCount(i) == IF approvalLog[i].sent THEN 1 ELSE 0

\* C1 as stated: two consecutive calls of check_if_approved with identical
\* inputs, approve=True and balance >= amount send at most one approval in
\* total, whatever the ledger did between them.
C1_AtMostOneApproval ==
    \A i \in LogPairs : SameInputPair(i) => SentCount(i) + SentCount(i + 1) <= 1

\* C1 amended: the two calls send at most one approval in total whenever the
\* second call reads an allowance >= the amount, and it reads one whenever the
\* first call's approval was accepted and has been mined before the second
\* call reads the allowance.
C1_AtMostOneOnceAllowed ==
    \A i \in LogPairs : SameInputPair(i) =>
        /\ approvalLog[i + 1].allowanceSeen >= approvalLog[i + 1].amount
              => SentCount(i) + SentCount(i + 1) <= 1
        /\ (approvalLog[i].accepted /\ approvalLog[i + 1].allowanceRead
                /\ approvalLog[i + 1].minedBefore > approvalLog[i].countSeen)
              => approvalLog[i + 1].allowanceSeen >= approvalLog[i + 1].amount

C1_Witness ==
    \E i \in LogPairs :
        /\ SameInputPair(i)
        /\ approvalLog[i].accepted
        /\ approvalLog[i + 1].allowanceSeen >= approvalLog[i + 1].amount
        /\ ~approvalLog[i + 1].sent
        /\ approvalLog[i + 1].outcome = "ok"

\* C2: within one pipeline run the approval transaction and the order
\* transaction never carry the same nonce.
C2_DistinctNonces ==
    \A i, j \in DOMAIN wire :
        (wire[i].run = wire[j].run /\ wire[i].kind = "approve" /\ wire[j].kind = "order")
            => wire[i].env.nonce # wire[j].env.nonce

OrderSends(r) ==
    Cardinality({i \in DOMAIN wire : wire[i].kind = "order" /\ wire[i].run = r})

ApprovalCallsOf(r) == {i \in DOMAIN approvalLog : approvalLog[i].caller = r}

\* C3: in a run with an allowance step, the order's nonce is read and its
\* envelope built only after the step succeeded (allowance sufficient, or the
\* approval accepted by the gateway, and sent before the order); after a
\* failed step the run builds, signs and sends no order.
C3_AllowanceBeforeOrder ==
    \A r \in Runs :
        /\ run[r].allowanceStep \notin {None, "ok"} =>
              /\ run[r].pc = "Aborted"
              /\ run[r].envelope = <<>> /\ run[r].nonceReads = 0
              /\ ~run[r].signed /\ OrderSends(r) = 0
        /\ (run[r].allowanceStep # None /\ (run[r].envelope # <<>> \/ run[r].nonceReads > 0)) =>
              /\ run[r].allowanceStep = "ok"
              /\ \A i \in ApprovalCallsOf(r) :
                    approvalLog[i].sent => approvalLog[i].accepted
        /\ \A i, j \in DOMAIN wire :
              (wire[i].run = r /\ wire[j].run = r /\ wire[i].kind = "approve"
                  /\ wire[j].kind = "order") => i < j

C3_Witness ==
    \E r1, r2 \in Runs :
        /\ run[r1].allowanceStep = "ok" /\ run[r1].envelope # <<>>
        /\ \E i \in ApprovalCallsOf(r1) : approvalLog[i].accepted
        /\ run[r2].allowanceStep = "send" /\ run[r2].pc = "Aborted"

\* C4: a run in debug mode never broadcasts the order, on any path.
C4_DebugNeverBroadcasts ==
    \A r \in Runs : run[r].debug =>
        /\ run[r].broadcasts = 0 /\ OrderSends(r) = 0
        /\ ~run[r].signed /\ run[r].txHash = <<>>
        /\ \A t \in pending : ~(t.kind = "order" /\ t.run = r)

C4_Witness ==
    \E r1, r2 \in Runs :
        /\ run[r1].debug /\ run[r1].pc = "Done" /\ run[r1].envelope # <<>>
        /\ run[r2].debug /\ run[r2].pc = "Done" /\ run[r2].failure = "build"

\* what the gateway answered to the two runs' reads
SameGatewayReads(r1, r2) ==
    /\ run[r1].feeBlock = run[r2].feeBlock
    /\ run[r1].quote = run[r2].quote
    /\ run[r1].gasReads = run[r2].gasReads
    /\ run[r1].countSeen = run[r2].countSeen

\* C5: for the same order, configuration and gateway answers, the envelope of
\* a debug run equals, field for field, the envelope a live run builds, and
\* the live run signs and sends exactly that envelope.
C5_DryRunFaithful ==
    \A r1, r2 \in Runs :
        (/\ run[r1].debug /\ ~run[r2].debug
         /\ run[r1].envelope # <<>> /\ run[r2].envelope # <<>>
         /\ SameGatewayReads(r1, r2)) =>
            /\ run[r1].envelope = run[r2].envelope
            /\ (run[r2].signed /\ run[r2].pc = "Done") =>
                  \E i \in DOMAIN wire :
                      /\ wire[i].kind = "order" /\ wire[i].run = r2
                      /\ wire[i].env = run[r2].envelope[1]

C5_Witness ==
    \E r1, r2 \in Runs :
        /\ run[r1].debug /\ ~run[r2].debug
        /\ run[r1].envelope # <<>> /\ run[r2].envelope # <<>>
        /\ SameGatewayReads(r1, r2)
        /\ run[r2].signed /\ run[r2].pc = "Done"

BothSimulated(r1, r2) ==
    /\ r1 # r2 /\ run[r1].debug /\ run[r2].debug
    /\ run[r1].envelope # <<>> /\ run[r2].envelope # <<>>

\* C6 as stated: two debug runs of the same order yield envelopes that agree
\* in every field except nonce, each run reading the nonce itself.
C6_SimulateTwiceEqual ==
    \A r1, r2 \in Runs : BothSimulated(r1, r2) =>
        /\ [run[r1].envelope[1] EXCEPT !.nonce = 0] = [run[r2].envelope[1] EXCEPT !.nonce = 0]
        /\ run[r1].nonceReads = 1 /\ run[r2].nonceReads = 1

\* C6 amended: the two envelopes agree in destination, value, chain id and
\* max priority fee; in the call arguments when both runs read the same price
\* quote; in max fee per gas when the caller supplied it or both runs read the
\* same base fee; in the gas ceiling when the estimator reads returned the
\* same values; each run reads the nonce itself and its envelope carries the
\* ledger's count at that read.
C6_SimulateTwiceEqualGivenReads ==
    \A r1, r2 \in Runs : BothSimulated(r1, r2) =>
        LET e1 == run[r1].envelope[1]
            e2 == run[r2].envelope[1]
        IN  /\ e1.to = e2.to /\ e1.value = e2.value
            /\ run[r1].quote = run[r2].quote => e1.call = e2.call
            /\ e1.chainId = e2.chainId
            /\ e1.maxPriorityFeePerGas = e2.maxPriorityFeePerGas
            /\ run[r1].feeBlock = run[r2].feeBlock => e1.maxFeePerGas = e2.maxFeePerGas
            /\ run[r1].gasReads = run[r2].gasReads => e1.gas = e2.gas
            /\ run[r1].nonceReads = 1 /\ run[r2].nonceReads = 1
            /\ e1.nonce = run[r1].countSeen /\ e2.nonce = run[r2].countSeen

C6_Witness ==
    \E r1, r2 \in Runs :
        /\ BothSimulated(r1, r2)
        /\ run[r1].quote = run[r2].quote
        /\ run[r1].feeBlock = run[r2].feeBlock
        /\ run[r1].gasReads = run[r2].gasReads
        /\ run[r1].envelope[1].nonce # run[r2].envelope[1].nonce

\* C7: a failed build, signature or broadcast of the order is raised to the
\* caller of _submit_transaction; the call never returns normally after it.
C7_FailureSurfaced ==
    \A r \in Runs : run[r].failure # None => run[r].ended = "raised"

\* C8: a live run broadcasts the order at most once, exactly once when the
\* envelope was built and signed, and never again after a rejected broadcast.
C8_BroadcastOnce ==
    \A r \in Runs :
        /\ OrderSends(r) <= 1
        /\ OrderSends(r) = run[r].broadcasts
        /\ (run[r].pc = "Done" /\ ~run[r].debug /\ run[r].failure \notin {"build", "sign"})
              => OrderSends(r) = 1
        /\ run[r].pc # "Done" => OrderSends(r) = 0

C8_Witness ==
    \E r1, r2 \in Runs :
        /\ run[r1].failure = "send" /\ OrderSends(r1) = 1
        /\ run[r2].pc = "Done" /\ run[r2].txHash # <<>> /\ OrderSends(r2) = 1

Resolved == resolution.status = "done"

\* the start token of a request: the address given, or the one its symbol names
StartTokenKnown(req) == Has(req, "start_token_address") \/ Has(req, "start_token_symbol")

\* the request with its start token's address filled in from the symbol
WithStartToken(req) ==
    IF Has(req, "start_token_address") THEN req
    ELSE Put(req, "start_token_address",
             FindKeyBySymbol(TokenRegistry, Get(req, "start_token_symbol"))[1])

\* the collateral value of a request can be computed from its own fields and
\* the oracle's prices
UsdDefined(req) ==
    /\ Has(req, "chain") /\ Has(req, "initial_collateral_delta")
    /\ StartTokenKnown(req)
    /\ Get(WithStartToken(req), "start_token_address") \in DOMAIN OraclePrices

RequestUsd(req) == CollateralUsd(WithStartToken(req), TokenRegistry)

LowCollateral(req) == UsdDefined(req) /\ PyLess(RequestUsd(req), PyTwo)

\* the size and collateral fields are as the caller passed them
Unscaled ==
    /\ resolution.dict["initial_collateral_delta"] = request["initial_collateral_delta"]
    /\ resolution.dict["size_delta"] = <<>>
    /\ \A i \in DOMAIN resolution.events : resolution.events[i] # "format"

PassedEarlierChecks ==
    \E i \in DOMAIN resolution.events : resolution.events[i] = "leverage_ok"

\* C9 as stated: an increase request resolves only if its collateral is worth
\* >= 2 USD; every request worth less is rejected with CollateralTooLow, its
\* size and collateral fields unscaled, and the order pipeline makes no price
\* or gas call for it.
C9_FloorRejectsAsTooLow ==
    (Resolved /\ parserKind = "increase") =>
        /\ resolution.error = <<>> => (UsdDefined(request) /\ ~LowCollateral(request))
        /\ LowCollateral(request) =>
              /\ resolution.error # <<>> /\ resolution.error[1] = "CollateralTooLow"
              /\ Unscaled /\ pipelineCalls = 0

\* the tokens API answered the last request of the call with the token list
LastRequestAnswered ==
    /\ resolution.answers # <<>>
    /\ resolution.answers[Len(resolution.answers)] = "ok"

\* C9 amended: an increase request resolves only if its collateral is worth
\* >= 2 USD; every request worth less is rejected, unscaled and without a
\* price or gas call of the order pipeline, and the rejection is
\* CollateralTooLow when the missing-field derivation and the leverage check
\* passed and the tokens API answered the request of the collateral check
\* with the token list (an earlier failure, or the KeyError of the token
\* lookup that failed, is reported instead).
C9_FloorRejects ==
    (Resolved /\ parserKind = "increase") =>
        /\ resolution.error = <<>> => (UsdDefined(request) /\ ~LowCollateral(request))
        /\ LowCollateral(request) =>
              /\ resolution.error # <<>>
              /\ (PassedEarlierChecks /\ LastRequestAnswered)
                    => resolution.error[1] = "CollateralTooLow"
              /\ Unscaled /\ pipelineCalls = 0
        /\ (resolution.error # <<>> /\ resolution.error[1] = "CollateralTooLow")
              => LowCollateral(request)

C9_Witness ==
    /\ Resolved /\ parserKind = "increase"
    /\ LowCollateral(request)
    /\ resolution.error = <<"CollateralTooLow", "initial_collateral_delta">>

\* C10: for each kind and whatever other fields are present, a request without
\* chain fails with MissingField naming chain, before any derivation or
\* registry or oracle lookup has run.
C10_MissingChainFails ==
    (Resolved /\ ~Has(request, "chain")) =>
        /\ resolution.error = <<"MissingField", "chain">>
        /\ resolution.events = <<>>
        /\ resolution.dict = request
        /\ pipelineCalls = 0

C10_Witness ==
    /\ Resolved /\ ~Has(request, "chain")
    /\ ~Has(request, "index_token_address") /\ Has(request, "index_token_symbol")
    /\ ~Has(request, "market_key") /\ ~Has(request, "slippage_percent")
    /\ resolution.error = <<"MissingField", "chain">>

\* the required fields of a request that are absent and that no handler can
\* derive: chain (order_argument_parser.py:132-136) and, for increase and
\* decrease, index_token_address without index_token_symbol (lines 142-147)
Underivable(kind, req) ==
    {k \in {"chain"} : ~Has(req, "chain")}
    \cup {k \in {"index_token_address"} :
            /\ kind # "swap"
            /\ ~Has(req, "index_token_address")
            /\ ~Has(req, "index_token_symbol")}

\* the fields that the exception of a failed call names
ErrorFields(error) == IF error = <<>> THEN {} ELSE {error[2]}

\* C11: when resolution fails with MissingField, the error names every required
\* field that is absent from the request and cannot be derived, not only the
\* first one that a handler met.
C11_ListsEveryMissing ==
    (Resolved /\ resolution.error # <<>> /\ resolution.error[1] = "MissingField")
        => Underivable(parserKind, request) \subseteq ErrorFields(resolution.error)

\* a key of the returned dictionary is present and its value is not None
NonNull(dict, key) ==
    Has(dict, key) /\ (key # "swap_path" => Get(dict, key) # None)

\* C12: every dictionary returned successfully has, for increase and decrease,
\* non-null market_key, index_token_address, collateral_address and swap_path
\* and, for swap, non-null start_token_address and out_token_address, whatever
\* the input omitted or passed as None.
C12_ResolvedComplete ==
    (Resolved /\ resolution.error = <<>>) =>
        /\ parserKind \in {"increase", "decrease"} =>
              \A k \in {"market_key", "index_token_address", "collateral_address",
                        "swap_path"} : NonNull(resolution.dict, k)
        /\ parserKind = "swap" =>
              \A k \in {"start_token_address", "out_token_address"} :
                  NonNull(resolution.dict, k)

\* the Gas Limit Table key of an order kind
TableKey(kind) == IF kind = "increase" THEN "increase_order" ELSE "decrease_order"

\* C13 as stated: the gas ceiling on the envelope is exactly twice a value that
\* the estimator of the kind's key returned, however the configuration store
\* behaved while the envelope was built.
C13_CeilingIsTwiceBase ==
    \A r \in Runs : run[r].envelope # <<>> =>
        /\ run[r].gasKey = TableKey(order.kind)
        /\ \/ run[r].envelope[1].gas = 2 * run[r].gasReads[1]
           \/ run[r].envelope[1].gas = 2 * run[r].gasReads[2]

\* C13 amended: the estimator of the kind's key is evaluated twice and the gas
\* ceiling is the sum of the two values; it is twice the base estimator value
\* whenever the store returned the same value to both evaluations.
C13_CeilingIsSumOfTwoReads ==
    \A r \in Runs : run[r].envelope # <<>> =>
        /\ run[r].gasKey = TableKey(order.kind)
        /\ Len(run[r].gasReads) = 2
        /\ run[r].envelope[1].gas = run[r].gasReads[1] + run[r].gasReads[2]
        /\ run[r].gasReads[1] = run[r].gasReads[2]
              => run[r].envelope[1].gas = 2 * run[r].gasReads[1]

C13_Witness ==
    \E r1, r2 \in Runs :
        /\ order.kind = "decrease"
        /\ run[r1].envelope # <<>> /\ run[r2].envelope # <<>>
        /\ run[r1].gasReads[1] = run[r1].gasReads[2]
        /\ run[r1].envelope[1].gas = 2 * run[r1].gasReads[1]
        /\ run[r2].gasReads[1] # run[r2].gasReads[2]

Priced == priced.status = "done" /\ priced.error = <<>>

\* n is the integer part of the non-negative number x
IsFloorOf(n, x) ==
    /\ n.t = "int"
    /\ ~PyLess(x, n)
    /\ PyLess(x, PyAdd(n, PyOne))

\* a number as an exact binary fraction m x 2^e, and exact arithmetic on
\* such fractions
Exact(x) == [m |-> x.m, e |-> x.e]
ExactMul(a, b) == [m |-> BigMul(a.m, b.m), e |-> a.e + b.e]
ExactAdd(a, b) ==
    IF a.e >= b.e THEN [m |-> BigAdd(BigShl(a.m, a.e - b.e), b.m), e |-> b.e]
    ELSE [m |-> BigAdd(a.m, BigShl(b.m, b.e - a.e)), e |-> a.e]
\* a - b for a >= b
ExactSub(a, b) ==
    IF a.e >= b.e THEN [m |-> BigSub(BigShl(a.m, a.e - b.e), b.m), e |-> b.e]
    ELSE [m |-> BigSub(a.m, BigShl(b.m, b.e - a.e)), e |-> a.e]
ExactLess(a, b) == PyLess(a, b)
ExactDistance(a, b) == IF ExactLess(a, b) THEN ExactSub(b, a) ELSE ExactSub(a, b)

\* x is y up to the rounding of double arithmetic: two roundings to
\* MantissaBits bits leave a value within 2^-(MantissaBits - 2) of the exact
\* one, |x - y| * 2^(MantissaBits - 2) <= y
UpToRounding(x, y) ==
    LET d == ExactDistance(Exact(x), Exact(y))
    IN ~ExactLess(Exact(y), [m |-> d.m, e |-> d.e + MantissaBits - 2])

ExactOne == [m |-> <<1>>, e |-> 0]

\* P(1+s) and P(1-s), exactly
PriceUp(P, s) == ExactMul(Exact(P), ExactAdd(ExactOne, Exact(s)))
PriceDown(P, s) == ExactMul(Exact(P), ExactSub(ExactOne, Exact(s)))

\* half the sum of the two prices of the quote, exactly
QuotedMiddle(quoted) ==
    LET sum == ExactAdd(Exact(PyInt(quoted.minPriceFull)),
                        Exact(PyInt(quoted.maxPriceFull)))
    IN [m |-> sum.m, e |-> sum.e - 1]

\* C14: with P the median of the token's max and min price and s the slippage,
\* _get_prices computes P(1+s) for open+long, P(1-s) for open+short, P(1-s)
\* for close+long and P(1+s) for close+short, each up to the rounding of
\* double arithmetic and above, below or equal to P as s is; the value it
\* returns beside the median is the integer part of that price.
C14_SlippageDirection ==
    Priced =>
        LET P == priced.price
            s == quote.slippagePercent
            quoted == quote.prices[quote.token]
            open == quote.isOpen
            close == ~quote.isOpen /\ quote.isClose
            raised == UpToRounding(priced.slippage, PriceUp(P, s))
                        /\ (s.m # <<>> => PyLess(P, priced.slippage))
            lowered == UpToRounding(priced.slippage, PriceDown(P, s))
                        /\ (s.m # <<>> => PyLess(priced.slippage, P))
        IN  /\ UpToRounding(P, QuotedMiddle(quoted))
            /\ (open /\ quote.isLong) => raised
            /\ (open /\ ~quote.isLong) => lowered
            /\ (close /\ quote.isLong) => lowered
            /\ (close /\ ~quote.isLong) => raised
            /\ priced.returned[1] = P
            /\ IsFloorOf(priced.returned[2], priced.slippage)

\* bid 60000 / ask 60010 and 0.3 percent: 60005 * 1.003 = 60185.015, which
\* double arithmetic misses by less than one part in 2^51
C14_Witness ==
    /\ Priced /\ quote.isOpen /\ quote.isLong
    /\ quote.slippagePercent = PyFloat(Num(3, -3))
    /\ quote.prices[quote.token].minPriceFull = Num(60000, 22)
    /\ quote.prices[quote.token].maxPriceFull = Num(60010, 22)
    /\ UpToRounding(priced.price, PyInt(Num(60005, 22)))
    /\ UpToRounding(priced.slippage, PyInt(Num(60185015, 19)))
    /\ priced.price # PyFloat(Num(60005, 22))
    /\ PyLess(priced.price, priced.slippage)

\* the balance that a call for a token has to compare with the amount
OwnerBalance(token) ==
    LET t == IF token = LegacyBTC THEN CanonBTC ELSE token
    IN IF t = WETH THEN nativeBal ELSE erc20Bal[t]

NothingSent(e) ==
    ~e.nonceRead /\ ~e.built /\ ~e.signed /\ ~e.sent /\ ~e.accepted

ApprovalsOnWire ==
    Cardinality({i \in DOMAIN wire : wire[i].kind = "approve"})

ApprovalsSent ==
    Cardinality({i \in DOMAIN approvalLog : approvalLog[i].sent})

\* C15: the balance compared is the native balance when the remapped token is
\* the wrapped-native address and the token's balanceOf otherwise; when it is
\* below the amount the call fails with InsufficientBalance without reading
\* the allowance and without building, signing or sending a transaction.
C15_InsufficientBalanceStops ==
    /\ \A i \in DOMAIN approvalLog :
          LET e == approvalLog[i]
          IN  /\ e.balanceSeen = OwnerBalance(e.token)
              /\ e.usedNative <=> (e.token = WETH)
              /\ e.balanceSeen < e.amount =>
                    /\ e.outcome = "InsufficientBalance"
                    /\ ~e.allowanceRead
                    /\ NothingSent(e)
              /\ e.outcome = "InsufficientBalance" => e.balanceSeen < e.amount
    /\ ApprovalsOnWire = ApprovalsSent

C15_Witness ==
    \E i \in DOMAIN approvalLog :
        /\ approvalLog[i].token = LegacyBTC /\ approvalLog[i].approve
        /\ allowance < approvalLog[i].amount
        /\ approvalLog[i].balanceSeen = erc20Bal[CanonBTC]
        /\ approvalLog[i].outcome = "InsufficientBalance"
        /\ wire = <<>>

\* C16: with balance >= amount, allowance < amount and approve False the call
\* fails with AllowanceTooLow after reading the allowance; it reads no nonce
\* and builds, signs and sends nothing, so every approval on the wire comes
\* from a call with approve True.
C16_AllowanceTooLowStops ==
    /\ \A i \in DOMAIN approvalLog :
          LET e == approvalLog[i]
          IN  /\ (e.balanceSeen >= e.amount /\ e.allowanceRead
                      /\ e.allowanceSeen < e.amount /\ ~e.approve) =>
                    /\ CallDone(e)
                    /\ e.outcome = "AllowanceTooLow"
                    /\ NothingSent(e)
              /\ (~e.allowanceRead /\ ~e.approve) => NothingSent(e)
              /\ e.outcome = "AllowanceTooLow" =>
                    /\ ~e.approve /\ e.balanceSeen >= e.amount
                    /\ e.allowanceRead /\ e.allowanceSeen < e.amount
    /\ ApprovalsOnWire =
          Cardinality({i \in DOMAIN approvalLog : approvalLog[i].sent /\ approvalLog[i].approve})

C16_Witness ==
    \E i \in DOMAIN approvalLog :
        /\ ~approvalLog[i].approve
        /\ approvalLog[i].balanceSeen >= approvalLog[i].amount
        /\ approvalLog[i].allowanceSeen < approvalLog[i].amount
        /\ approvalLog[i].allowanceSeen >= 0
        /\ approvalLog[i].outcome = "AllowanceTooLow"
        /\ pending = {}

\* C17: a call that reads balance >= amount and allowance >= amount returns
\* success for either value of approve at the allowance check: it reads no
\* nonce, builds, signs and sends nothing, and the steps it takes leave every
\* part of the ledger as they found it.
C17_NoOpWhenAllowed ==
    [][\A i \in DOMAIN approvalLog' :
          LET e == approvalLog'[i]
              stepped == i \notin DOMAIN approvalLog \/ approvalLog[i] # e
          IN  /\ (e.balanceSeen >= e.amount /\ e.allowanceRead
                      /\ e.allowanceSeen >= e.amount) =>
                    /\ CallDone(e) /\ e.outcome = "ok"
                    /\ NothingSent(e)
              /\ (stepped /\ ~e.nonceRead) =>
                    /\ e.allowanceRead => e.allowanceSeen = allowance
                    /\ wire' = wire /\ pending' = pending /\ txCount' = txCount
                    /\ allowance' = allowance /\ nativeBal' = nativeBal
                    /\ erc20Bal' = erc20Bal]_vars

C17_Witness ==
    \E i, j \in DOMAIN approvalLog :
        /\ approvalLog[i].approve /\ ~approvalLog[j].approve
        /\ approvalLog[i].balanceSeen >= approvalLog[i].amount
        /\ approvalLog[i].allowanceSeen >= approvalLog[i].amount
        /\ approvalLog[j].allowanceSeen >= approvalLog[j].amount
        /\ approvalLog[i].outcome = "ok" /\ approvalLog[j].outcome = "ok"
        /\ wire = <<>> /\ txCount = 0

\* C18: a submit step that ended without failure has returned to its caller
\* the transaction id of the broadcast in live mode and the envelope it built
\* in debug mode.
C18_ReturnsIdOrEnvelope ==
    \A r \in Runs : (run[r].pc = "Done" /\ run[r].failure = None) =>
        /\ run[r].returned # <<>>
        /\ run[r].debug => run[r].returned = run[r].envelope
        /\ ~run[r].debug => run[r].returned = run[r].txHash

\* equality of two numbers, zero compared by its mantissa
SameValue(a, b) == ~PyLess(a, b) /\ ~PyLess(b, a)

\* C19: for a swap intent (neither is_open nor is_close) the slippage-adjusted
\* price that _get_prices computes and returns equals the median of the
\* token's max and min price.
C19_SwapPriceIsMedian ==
    (Priced /\ ~quote.isOpen /\ ~quote.isClose) =>
        /\ SameValue(priced.slippage, priced.price)
        /\ IsFloorOf(priced.returned[2], priced.price)

\* a swap request that supplies every key of the swap list
CompleteSwapRequest(req) ==
    \A k \in {"chain", "start_token_address", "out_token_address",
              "initial_collateral_delta", "swap_path", "slippage_percent"} :
        Has(req, k)

\* C20: a swap request that supplies every required swap field resolves
\* successfully, without the leverage check and the collateral floor, to a
\* dictionary whose initial_collateral_delta is the request's scaled by
\* 10^decimals of the start token and which has no size_delta.
C20_SwapResolves ==
    (Resolved /\ parserKind = "swap" /\ CompleteSwapRequest(request)) =>
        /\ resolution.error = <<>>
        /\ \A i \in DOMAIN resolution.events :
              resolution.events[i] \notin {"position_size", "leverage_ok", "collateral_floor"}
        /\ Get(resolution.dict, "initial_collateral_delta") =
              ScaledInt(Get(request, "initial_collateral_delta"),
                        TokenRegistry[Get(request, "start_token_address")].decimals)
        /\ ~Has(resolution.dict, "size_delta")

\* the position of a state in the order of the submission state machine
StageRank(stage) ==
    CASE stage = "Initialized" -> 1
      [] stage = "Priced" -> 3
      [] stage = "Budgeted" -> 4
      [] stage = "NonceRead" -> 5
      [] stage = "Enveloped" -> 6
      [] stage = "Signed" -> 7
      [] stage \in {"Broadcast", "Discarded"} -> 8

HasStage(r, stage) == \E i \in DOMAIN run[r].stages : run[r].stages[i] = stage

\* C21: every run passes through Initialized, Priced, Budgeted, Enveloped,
\* Signed and then Broadcast or Discarded in that order without re-entering a
\* state: the nonce is read before the envelope is built, the signature comes
\* before the broadcast, and a debug run has reached Signed when it ends in
\* Discarded.
C21_StagesInOrder ==
    \A r \in Runs :
        /\ \A i, j \in DOMAIN run[r].stages :
              i < j => StageRank(run[r].stages[i]) < StageRank(run[r].stages[j])
        /\ HasStage(r, "Enveloped") => HasStage(r, "NonceRead")
        /\ HasStage(r, "Broadcast") => HasStage(r, "Signed")
        /\ HasStage(r, "Discarded") => HasStage(r, "Signed")

\* C22: every approval that check_if_approved sends approves the given spender
\* for exactly the amount the call required, and a call that entered the
\* approval branch reports success only if the gateway accepted the broadcast.
C22_ExactApprovalAcceptedOnly ==
    /\ \A w \in DOMAIN wire : wire[w].kind = "approve" =>
          /\ wire[w].env.call = <<"approve", Spender, order.amount>>
          /\ \E i \in DOMAIN approvalLog :
                /\ approvalLog[i].sent
                /\ approvalLog[i].amount = wire[w].env.call[3]
                /\ approvalLog[i].countSeen = wire[w].env.nonce
                /\ approvalLog[i].accepted = wire[w].accepted
    /\ \A i \in DOMAIN approvalLog :
          /\ (approvalLog[i].nonceRead /\ approvalLog[i].outcome = "ok")
                => (approvalLog[i].sent /\ approvalLog[i].accepted)
          /\ (approvalLog[i].nonceRead /\ CallDone(approvalLog[i])
                  /\ ~approvalLog[i].accepted)
                => approvalLog[i].outcome \in {"build", "sign", "send"}
    /\ ApprovalsOnWire = ApprovalsSent

C22_Witness ==
    \E i, j \in DOMAIN approvalLog :
        /\ approvalLog[i].sent /\ ~approvalLog[i].accepted
        /\ approvalLog[i].outcome = "send"
        /\ approvalLog[j].sent /\ approvalLog[j].accepted
        /\ approvalLog[j].outcome = "ok"
        /\ \E t \in pending : t.env.call = <<"approve", Spender, approvalLog[j].amount>>

\* a request for a position that leaves index_token_address and market_key
\* to the parser
IndexAndMarketMissing ==
    /\ Resolved /\ parserKind \in {"increase", "decrease"}
    /\ Has(request, "chain")
    /\ ~Has(request, "index_token_address") /\ ~Has(request, "market_key")

\* the index of the first occurrence of an event, 0 when it has not occurred
FirstEvent(e) ==
    IF \E i \in DOMAIN resolution.events : resolution.events[i] = e
    THEN CHOOSE i \in DOMAIN resolution.events :
            /\ resolution.events[i] = e
            /\ \A j \in 1..(i - 1) : resolution.events[j] # e
    ELSE 0

\* the tokens API answered the first request of the call, the one that the
\* derivation of the index token's address sends, with the token registry
TokensAnswered ==
    /\ Has(request, "chain") /\ Get(request, "chain") \in KnownChains
    /\ resolution.answers # <<>> /\ resolution.answers[1] = "ok"

\* C23: with index_token_address and market_key both missing and a symbol
\* supplied, the address is derived first, from "WBTC.b" for the symbol BTC and
\* from the literal symbol otherwise, and the market key is derived afterwards
\* from that address, the canonical BTC address being looked up under the
\* legacy one; when the token registry cannot be fetched the resolution fails
\* before the market key is derived; with neither address nor symbol the
\* resolution fails.
C23_IndexThenMarket ==
    /\ (IndexAndMarketMissing /\ Has(request, "index_token_symbol")) =>
          /\ FirstEvent("index_token_address") = 1
          /\ FirstEvent("market_key") # 0 =>
                /\ FirstEvent("lookup:tokens") # 0
                /\ FirstEvent("market_key") > FirstEvent("lookup:tokens")
                /\ FirstEvent("lookup:markets") > FirstEvent("market_key")
          /\ TokensAnswered =>
                /\ FirstEvent("market_key") # 0
                /\ Get(request, "index_token_symbol") = "BTC" =>
                      /\ resolution.dict["index_token_address"] = <<CanonBTC>>
                      /\ resolution.dict["market_key"] = <<"market_BTC">>
                /\ Get(request, "index_token_symbol") = "ETH" =>
                      /\ resolution.dict["index_token_address"] = <<WETH>>
                      /\ resolution.dict["market_key"] = <<"market_ETH">>
          /\ ~TokensAnswered =>
                /\ resolution.error # <<>>
                /\ FirstEvent("market_key") = 0
                /\ (Get(request, "index_token_symbol") = "BTC"
                        /\ Get(request, "chain") \in KnownChains)
                      => resolution.error[2] = "WBTC.b"
    /\ (Resolved /\ parserKind \in {"increase", "decrease"}
            /\ ~Has(request, "index_token_address")
            /\ ~Has(request, "index_token_symbol")) =>
          /\ resolution.error # <<>>
          /\ Has(request, "chain") =>
                /\ resolution.error = <<"MissingField", "index_token_address">>
                /\ resolution.events = <<"index_token_address">>
                /\ resolution.dict = request

C23_Witness ==
    /\ IndexAndMarketMissing /\ parserKind = "decrease" /\ TokensAnswered
    /\ request["index_token_symbol"] = <<"BTC">>
    /\ resolution.error = <<>>
    /\ resolution.dict["index_token_address"] = <<CanonBTC>>
    /\ resolution.dict["market_key"] = <<"market_BTC">>

\* C24: each of two runs for the same wallet reads the nonce itself, in the
\* call that builds and signs its order, and the two signed order transactions
\* carry different nonces.
C24_OwnNonceNoCollision ==
    \A r1, r2 \in Runs :
        /\ run[r1].signed => (run[r1].nonceReads = 1
                                /\ run[r1].envelope[1].nonce = run[r1].countSeen)
        /\ (r1 # r2 /\ run[r1].signed /\ run[r2].signed)
              => run[r1].envelope[1].nonce # run[r2].envelope[1].nonce

\* C25: when execute_threading has returned, every call of the input list has
\* completed in a worker, none is queued or running, and the list returned has
\* one result per call in the order of the input list, in whatever order the
\* workers finished.
C25_ReturnsAllInInputOrder ==
    pool.pc = "returned" =>
        /\ pool.done = 1..Len(pool.calls)
        /\ pool.running = {} /\ pool.queued = <<>> /\ pool.cancelled = {}
        /\ pool.taken = {} /\ pool.workQueue = <<>>
        /\ pool.returned # <<>>
        /\ Len(pool.returned[1]) = Len(pool.calls)
        /\ \A i \in 1..Len(pool.calls) : pool.returned[1][i] = pool.calls[i]

C25_Witness ==
    /\ pool.pc = "returned"
    /\ pool.calls = <<"x", "y", "x">>
    /\ pool.finishOrder = <<2, 1, 3>>
    /\ pool.returned = <<pool.calls>>

\* the envelopes a run has built or sent: its order and its approvals
EnvelopesOf(r) ==
    {run[r].envelope[i] : i \in DOMAIN run[r].envelope}
    \cup {wire[w].env : w \in {v \in DOMAIN wire : wire[v].run = r}}

\* C26 as stated: the max fee per gas on every envelope of a run is the
\* caller's value truncated to an integer when the caller gave one and
\* otherwise exactly 1.35 x the base fee of the latest block; the max priority
\* fee is 0 on every approval and order.
C26_MaxFeeExact ==
    \A r \in Runs : \A e \in EnvelopesOf(r) :
        /\ e.maxPriorityFeePerGas = 0
        /\ order.callerFee # <<>> => e.maxFeePerGas = order.callerFee[1] \div 100
        /\ order.callerFee = <<>> => 100 * e.maxFeePerGas = 135 * run[r].feeBlock[1]

\* C26 amended: when the caller gave none, the max fee per gas on the envelope
\* is 1.35 x the base fee of the block read at construction, truncated to an
\* integer like a caller's value; the max priority fee is 0 on every approval
\* and order.
C26_MaxFeeTruncated ==
    \A r \in Runs : \A e \in EnvelopesOf(r) :
        /\ e.maxPriorityFeePerGas = 0
        /\ order.callerFee # <<>> =>
              /\ e.maxFeePerGas = order.callerFee[1] \div 100
              /\ run[r].feeBlock = <<>>
        /\ order.callerFee = <<>> =>
              /\ run[r].feeBlock # <<>>
              /\ e.maxFeePerGas = (135 * run[r].feeBlock[1]) \div 100
              /\ 100 * e.maxFeePerGas <= 135 * run[r].feeBlock[1]
              /\ 135 * run[r].feeBlock[1] < 100 * (e.maxFeePerGas + 1)

C26_Witness ==
    \E r \in Runs :
        /\ order.callerFee = <<>>
        /\ run[r].feeBlock = <<10>>
        /\ run[r].envelope # <<>> /\ run[r].envelope[1].maxFeePerGas = 13
        /\ \E w \in DOMAIN wire :
              /\ wire[w].run = r /\ wire[w].kind = "approve"
              /\ wire[w].env.maxFeePerGas = 13

\* ---------------------------------------------------------------------------
\* C27: process_parameters_dictionary scales size_delta_usd by 10^30 and
\* initial_collateral_delta by 10^decimals exactly once per request, on every
\* successful resolution whether or not fields were missing, and resolving
\* the returned dictionary a second time leaves initial_collateral_delta
\* unchanged.
SameAmount(a, b) == ~PyLess(a, b) /\ ~PyLess(b, a)

StartDecimals(dict) == TokenRegistry[Get(dict, "start_token_address")].decimals

\* the first resolution of a request succeeded
ResolvedOnce ==
    /\ resolution.status = "done"
    /\ resolution.error = <<>>

\* the dictionary returned by a successful resolution was resolved again,
\* and the second resolution succeeded as well
ResolvedTwice ==
    /\ resolution.status = "again"
    /\ resolution.error = <<>>

C27_FirstResolutionScales ==
    ResolvedOnce =>
        /\ parserKind # "swap" =>
               resolution.dict["size_delta"]
                   = <<ScaledInt(Get(resolution.dict, "size_delta_usd"), 30)>>
        /\ Has(request, "initial_collateral_delta") =>
               resolution.dict["initial_collateral_delta"]
                   = <<ScaledInt(Get(request, "initial_collateral_delta"),
                                StartDecimals(resolution.dict))>>

C27_ScaledOnce ==
    /\ C27_FirstResolutionScales
    /\ ResolvedTwice =>
           SameAmount(Get(resolution.dict, "initial_collateral_delta"),
                      Get(resolution.first[1], "initial_collateral_delta"))

\* what the code does on the second resolution: the amount already scaled is
\* scaled by 10^decimals once more
C27_SecondResolutionRescales ==
    ResolvedTwice =>
        resolution.dict["initial_collateral_delta"]
            = <<ScaledInt(Get(resolution.first[1], "initial_collateral_delta"),
                         StartDecimals(resolution.dict))>>

C27_Witness ==
    /\ ResolvedTwice
    /\ Get(resolution.first[1], "initial_collateral_delta").m # <<>>
    /\ ~SameAmount(Get(resolution.dict, "initial_collateral_delta"),
                   Get(resolution.first[1], "initial_collateral_delta"))

====
